---- MODULE Spec2Model ----
(***************************************************************************)
(* A model of the clapgo C bridge (src/src/c/bridge.c, manifest.c): the    *)
(* manifest registry, descriptor synthesis, instance creation with its     *)
(* capability flags, the extension dispatcher and the lifecycle forwarding *)
(* functions.  The Go module behind the ClapGo_* entry points is not part  *)
(* of the C sources; its lifecycle behaviour is modelled from the design   *)
(* document (section 4.4) and is marked as such where it is defined.       *)
(***************************************************************************)
EXTENDS Integers, Sequences, FiniteSets, TLC

VARIABLES
    exports,                \* the ClapGo_* entry points the linked Go module defines
    manifest_plugins,       \* bridge.c:21   the registry array
    manifest_plugin_count,  \* bridge.c:22
    descriptors,            \* heap: descriptors made by manifest_to_descriptor
    go_instances,           \* module side: lifecycle state of each Go instance
    plugin_data,            \* heap: go_plugin_data_t records (bridge.h:45-70)
    plugins,                \* heap: clap_plugin_t structures
    created_flags,          \* history: the flags each record got at creation
    last,                   \* the most recent host call, its result and the module calls it made
    crashed,                \* a call went through an unresolved entry point
    audio_thread,           \* the process call the host's audio thread is in
    entry_layer,            \* plugin.c:36-54  the statics of the descriptor-copying layer and its heap
    presets,                \* preset_discovery.c:354-359  the provider descriptors, the preset
                            \* directories on disk and the provider the host got last
    converters              \* state_converter.c:25-34  the converter descriptors and the
                            \* configuration files on disk

vars == <<exports, manifest_plugins, manifest_plugin_count, descriptors,
          go_instances, plugin_data, plugins, created_flags, last, crashed,
          audio_thread, entry_layer, presets, converters>>

NULL == "NULL"
MISSING == "MISSING"

(***************************************************************************)
(* Bounds of the model.                                                    *)
(***************************************************************************)
MaxInst == 2        \* instance slots (Go instance, record and clap_plugin_t)
MaxDesc == 2        \* descriptor blocks the heap can hold
MaxBadFields == 1   \* required fields missing or empty in one manifest document
MaxFeatures == 2    \* feature tags a manifest document declares

MAX_PLUGIN_MANIFESTS == 32
MAX_FEATURES == 32
MAX_EXTENSIONS == 16

Slots == 1..MaxInst
DescSlots == 1..MaxDesc

(***************************************************************************)
(* The module's entry points (bridge.c:24-113).  The declarations of lines *)
(* 25-47 are plain externs; those of lines 50-113 are weak.                *)
(***************************************************************************)
MandatorySymbols ==
    {"ClapGo_CreatePlugin", "ClapGo_PluginInit", "ClapGo_PluginDestroy",
     "ClapGo_PluginActivate", "ClapGo_PluginDeactivate",
     "ClapGo_PluginStartProcessing", "ClapGo_PluginStopProcessing",
     "ClapGo_PluginReset", "ClapGo_PluginProcess"}

StrongSymbols ==
    MandatorySymbols \cup
    {"ClapGo_PluginGetExtension", "ClapGo_PluginOnMainThread",
     "ClapGo_PluginParamsCount", "ClapGo_PluginParamsGetInfo",
     "ClapGo_PluginParamsGetValue", "ClapGo_PluginParamsValueToText",
     "ClapGo_PluginParamsTextToValue", "ClapGo_PluginParamsFlush",
     "ClapGo_PluginStateSave", "ClapGo_PluginStateLoad"}

\* The entry points of each optional extension, keyed by the capability flag.
SymbolGroup ==
    [supports_params |->
        {"ClapGo_PluginParamsCount", "ClapGo_PluginParamsGetInfo",
         "ClapGo_PluginParamsGetValue", "ClapGo_PluginParamsValueToText",
         "ClapGo_PluginParamsTextToValue", "ClapGo_PluginParamsFlush"},
     supports_state |-> {"ClapGo_PluginStateSave", "ClapGo_PluginStateLoad"},
     supports_note_ports |->
        {"ClapGo_PluginNotePortsCount", "ClapGo_PluginNotePortsGet"},
     supports_latency |-> {"ClapGo_PluginLatencyGet"},
     supports_tail |-> {"ClapGo_PluginTailGet"},
     supports_timer |-> {"ClapGo_PluginOnTimer"},
     supports_audio_ports_config |->
        {"ClapGo_PluginAudioPortsConfigCount", "ClapGo_PluginAudioPortsConfigGet",
         "ClapGo_PluginAudioPortsConfigSelect",
         "ClapGo_PluginAudioPortsConfigCurrentConfig",
         "ClapGo_PluginAudioPortsConfigGetInfo"},
     supports_surround |->
        {"ClapGo_PluginSurroundIsChannelMaskSupported",
         "ClapGo_PluginSurroundGetChannelMap"},
     supports_voice_info |-> {"ClapGo_PluginVoiceInfoGet"},
     supports_state_context |->
        {"ClapGo_PluginStateSaveWithContext", "ClapGo_PluginStateLoadWithContext"},
     supports_preset_load |-> {"ClapGo_PluginPresetLoadFromLocation"},
     supports_track_info |-> {"ClapGo_PluginTrackInfoChanged"},
     supports_param_indication |->
        {"ClapGo_PluginParamIndicationSetMapping",
         "ClapGo_PluginParamIndicationSetAutomation"},
     supports_context_menu |->
        {"ClapGo_PluginContextMenuPopulate", "ClapGo_PluginContextMenuPerform"},
     supports_remote_controls |->
        {"ClapGo_PluginRemoteControlsCount", "ClapGo_PluginRemoteControlsGet"},
     supports_note_name |->
        {"ClapGo_PluginNoteNameCount", "ClapGo_PluginNoteNameGet"},
     supports_ambisonic |->
        {"ClapGo_PluginAmbisonicIsConfigSupported", "ClapGo_PluginAmbisonicGetConfig"},
     supports_audio_ports_activation |->
        {"ClapGo_PluginAudioPortsActivationCanActivateWhileProcessing",
         "ClapGo_PluginAudioPortsActivationSetActive"}]

FlagNames == DOMAIN SymbolGroup

AllSymbols == StrongSymbols \cup UNION {SymbolGroup[f] : f \in FlagNames}

WeakFlagNames == {f \in FlagNames : SymbolGroup[f] \subseteq (AllSymbols \ StrongSymbols)}

\* `Sym != NULL` as the C compiler evaluates it: the address of a function
\* declared without __attribute__((weak)) is never null; a weak one is null
\* exactly when no definition was linked.
AddressNonNull(E, sym) ==
    IF sym \in (AllSymbols \ StrongSymbols) THEN sym \in E ELSE TRUE


\* bridge.c:271-301: the capability flags of a new instance record.
ExtensionFlags(E) ==
    [supports_params |-> AddressNonNull(E, "ClapGo_PluginParamsCount"),
     supports_note_ports |->
        AddressNonNull(E, "ClapGo_PluginNotePortsCount")
        /\ AddressNonNull(E, "ClapGo_PluginNotePortsGet"),
     supports_state |->
        AddressNonNull(E, "ClapGo_PluginStateSave")
        /\ AddressNonNull(E, "ClapGo_PluginStateLoad"),
     supports_latency |-> AddressNonNull(E, "ClapGo_PluginLatencyGet"),
     supports_tail |-> AddressNonNull(E, "ClapGo_PluginTailGet"),
     supports_timer |-> AddressNonNull(E, "ClapGo_PluginOnTimer"),
     supports_audio_ports_config |->
        AddressNonNull(E, "ClapGo_PluginAudioPortsConfigCount")
        /\ AddressNonNull(E, "ClapGo_PluginAudioPortsConfigGet")
        /\ AddressNonNull(E, "ClapGo_PluginAudioPortsConfigSelect"),
     supports_surround |->
        AddressNonNull(E, "ClapGo_PluginSurroundIsChannelMaskSupported")
        /\ AddressNonNull(E, "ClapGo_PluginSurroundGetChannelMap"),
     supports_voice_info |-> AddressNonNull(E, "ClapGo_PluginVoiceInfoGet"),
     supports_state_context |->
        AddressNonNull(E, "ClapGo_PluginStateSaveWithContext")
        /\ AddressNonNull(E, "ClapGo_PluginStateLoadWithContext"),
     supports_preset_load |-> AddressNonNull(E, "ClapGo_PluginPresetLoadFromLocation"),
     supports_track_info |-> AddressNonNull(E, "ClapGo_PluginTrackInfoChanged"),
     supports_param_indication |->
        AddressNonNull(E, "ClapGo_PluginParamIndicationSetMapping")
        /\ AddressNonNull(E, "ClapGo_PluginParamIndicationSetAutomation"),
     supports_context_menu |->
        AddressNonNull(E, "ClapGo_PluginContextMenuPopulate")
        /\ AddressNonNull(E, "ClapGo_PluginContextMenuPerform"),
     supports_remote_controls |->
        AddressNonNull(E, "ClapGo_PluginRemoteControlsCount")
        /\ AddressNonNull(E, "ClapGo_PluginRemoteControlsGet"),
     supports_note_name |->
        AddressNonNull(E, "ClapGo_PluginNoteNameCount")
        /\ AddressNonNull(E, "ClapGo_PluginNoteNameGet"),
     supports_ambisonic |->
        AddressNonNull(E, "ClapGo_PluginAmbisonicIsConfigSupported")
        /\ AddressNonNull(E, "ClapGo_PluginAmbisonicGetConfig"),
     supports_audio_ports_activation |->
        AddressNonNull(E, "ClapGo_PluginAudioPortsActivationCanActivateWhileProcessing")
        /\ AddressNonNull(E, "ClapGo_PluginAudioPortsActivationSetActive")]

ZeroFlags == [f \in FlagNames |-> FALSE]

\* go_plugin_data_t (bridge.h:45-70) with the state of its heap block.
go_plugin_data_t(alloc, go_instance, descriptor, manifest_index, flags) ==
    [alloc |-> alloc, go_instance |-> go_instance, descriptor |-> descriptor,
     manifest_index |-> manifest_index] @@ flags

FlagsOf(data) == [f \in FlagNames |-> data[f]]

(***************************************************************************)
(* Manifests (manifest.h:40-69, manifest.c:12-257).                        *)
(***************************************************************************)
RequiredFields == {"id", "name", "vendor", "version", "goSharedLibrary"}

\* A manifest document with every required field present.
GoodDoc(id) ==
    [readable |-> TRUE, parses |-> TRUE, id |-> id, name |-> "Gain",
     vendor |-> "ClapGo", version |-> "1.0.0", goSharedLibrary |-> "libgain.so",
     features |-> <<"audio-effect", "stereo">>, extensions |-> <<>>]

NoFile ==
    [readable |-> FALSE, parses |-> FALSE, id |-> MISSING, name |-> MISSING,
     vendor |-> MISSING, version |-> MISSING, goSharedLibrary |-> MISSING,
     features |-> <<>>, extensions |-> <<>>]

\* A file json-c cannot parse.
BrokenDoc == [NoFile EXCEPT !.readable = TRUE]

\* Documents in which the fields of B are missing or empty.
Spoiled(doc, B, how) ==
    [f \in DOMAIN doc |-> IF f \in B THEN how[f] ELSE doc[f]]

Docs ==
    {BrokenDoc} \cup
    { Spoiled(GoodDoc("com.example.gain"), B, how) :
        B \in {S \in SUBSET RequiredFields : Cardinality(S) <= MaxBadFields},
        how \in {[f \in RequiredFields |-> MISSING], [f \in RequiredFields |-> ""]} }

BadDoc(doc) ==
    \/ ~doc.parses
    \/ \E f \in RequiredFields : doc[f] \in {MISSING, ""}

\* `features` holds the strdup'ed feature strings, feature_count of them;
\* `extensions` the extension_count entries of the extensions array.
ZeroManifest ==
    [id |-> "", name |-> "", vendor |-> "", version |-> "", go_shared_library |-> "",
     features |-> <<>>, extensions |-> <<>>]

ZeroRegistry ==
    [i \in 0..(MAX_PLUGIN_MANIFESTS - 1) |->
        [manifest |-> ZeroManifest, descriptor |-> 0, loaded |-> FALSE]]

\* manifest.c:49-157: a present string value is copied, anything else leaves
\* the zeroed field of manifest_init.
ParsedField(doc, f) == IF doc[f] = MISSING THEN "" ELSE doc[f]

\* manifest.c:122-144: feature_count is the length of the array, at most
\* MAX_FEATURES; an element that is a string is copied, any other element
\* (written "<number>" in a document) leaves features[i] as manifest_init
\* zeroed it, NULL.  A document without a features array leaves
\* feature_count 0.
ParsedFeatures(doc) ==
    [i \in 1..(IF Len(doc.features) > MAX_FEATURES THEN MAX_FEATURES
               ELSE Len(doc.features)) |->
        IF doc.features[i] = "<number>" THEN NULL ELSE doc.features[i]]

\* manifest.c:161-190: at most MAX_EXTENSIONS entries of the extensions
\* array, the id and the supported value of each.
ParsedExtensions(doc) ==
    SubSeq(doc.extensions, 1,
           IF Len(doc.extensions) > MAX_EXTENSIONS THEN MAX_EXTENSIONS
           ELSE Len(doc.extensions))

\* The loader without the required-field validation of manifest.c:246-254.
manifest_load_unvalidated(doc) ==
    IF ~doc.parses
    THEN [ret |-> FALSE, manifest |-> ZeroManifest]
    ELSE [ret |-> TRUE,
          manifest |-> [id |-> ParsedField(doc, "id"),
                        name |-> ParsedField(doc, "name"),
                        vendor |-> ParsedField(doc, "vendor"),
                        version |-> ParsedField(doc, "version"),
                        go_shared_library |-> ParsedField(doc, "goSharedLibrary"),
                        features |-> ParsedFeatures(doc),
                        extensions |-> ParsedExtensions(doc)]]

\* manifest.c:24-257: the manifest written through the out parameter, and the
\* return value.
manifest_load_from_file(doc) ==
    IF ~doc.parses
    THEN [ret |-> FALSE, manifest |-> ZeroManifest]
    ELSE LET m == [id |-> ParsedField(doc, "id"),
                   name |-> ParsedField(doc, "name"),
                   vendor |-> ParsedField(doc, "vendor"),
                   version |-> ParsedField(doc, "version"),
                   go_shared_library |-> ParsedField(doc, "goSharedLibrary"),
                   features |-> ParsedFeatures(doc),
                   extensions |-> ParsedExtensions(doc)]
         IN [ret |-> ~(\/ m.id = ""
                       \/ m.name = ""
                       \/ m.vendor = ""
                       \/ m.version = ""
                       \/ m.go_shared_library = ""),
             manifest |-> m]

\* A search that counts the manifest it found whether or not it loaded.
clapgo_find_manifests_counting_failed_load(local, installed, home) ==
    LET path == IF local.readable THEN "local"
                ELSE IF home /\ installed.readable THEN "installed"
                ELSE "none"
        probes == IF local.readable \/ ~home THEN <<"local">>
                  ELSE <<"local", "installed">>
        doc == IF path = "local" THEN local ELSE installed
    IN  IF path = "none"
        THEN [registry |-> ZeroRegistry, count |-> 0, path |-> path,
              probes |-> probes]
        ELSE [registry |->
                [ZeroRegistry EXCEPT ![0] =
                    [manifest |-> manifest_load_from_file(doc).manifest,
                     descriptor |-> 0, loaded |-> FALSE]],
              count |-> 1, path |-> path, probes |-> probes]

\* A search that prefers the installed manifest to the one next to the plugin.
clapgo_find_manifests_installed_first(local, installed, home) ==
    LET path == IF home /\ installed.readable THEN "installed"
                ELSE IF local.readable THEN "local"
                ELSE "none"
        doc == IF path = "local" THEN local ELSE installed
        loadr == manifest_load_from_file(doc)
    IN  IF path = "none"
        THEN [registry |-> ZeroRegistry, count |-> 0, path |-> path,
              probes |-> <<"installed", "local">>]
        ELSE [registry |->
                [ZeroRegistry EXCEPT ![0] =
                    [manifest |-> loadr.manifest, descriptor |-> 0, loaded |-> FALSE]],
              count |-> IF loadr.ret THEN 1 ELSE 0,
              path |-> path,
              probes |-> IF path = "installed" THEN <<"installed">>
                         ELSE <<"installed", "local">>]

\* bridge.c:116-187: the registry and count after the search.  `local` is the
\* file next to the plugin, `installed` the one under $HOME/.clap, `home`
\* whether HOME is set.  `probes` lists the access(2) calls made, in order.
clapgo_find_manifests(local, installed, home) ==
    LET path == IF local.readable THEN "local"
                ELSE IF home /\ installed.readable THEN "installed"
                ELSE "none"
        probes == IF local.readable \/ ~home THEN <<"local">>
                  ELSE <<"local", "installed">>
        doc == IF path = "local" THEN local ELSE installed
        loadr == manifest_load_from_file(doc)
    IN  IF path = "none"
        THEN [registry |-> ZeroRegistry, count |-> 0, path |-> path,
              probes |-> probes]
        ELSE [registry |->
                [ZeroRegistry EXCEPT ![0] =
                    [manifest |-> loadr.manifest, descriptor |-> 0, loaded |-> FALSE]],
              count |-> IF loadr.ret THEN 1 ELSE 0,
              path |-> path,
              probes |-> probes]

(***************************************************************************)
(* Descriptors (manifest.c:259-306).                                       *)
(***************************************************************************)
\* The heap pointers of a descriptor are "null" (NULL), "live" (allocated),
\* "freed", "double" (freed twice), "borrowed" (not from the allocator) or
\* "wild" (a borrowed pointer handed to free).
StringFields ==
    {"id", "name", "vendor", "url", "manual_url", "support_url", "version",
     "description"}

\* The allocations of manifest.c:259-306 that may fail: the descriptor, the
\* eight string copies, the feature array and each feature string.
FeatureSites == <<"feature1", "feature2", "feature3", "feature4">>

AllocSites ==
    {"descriptor", "features"} \cup StringFields
    \cup {FeatureSites[i] : i \in 1..Len(FeatureSites)}

\* Every allocation succeeds.
AllocOK == {}

\* manifest.c:297-299
DefaultFeatures == <<"audio-effect", "stereo", "mono">>

ZeroDescriptor ==
    [alloc |-> "none", id |-> "", str |-> [f \in StringFields |-> "null"],
     features |-> "null", tags |-> <<>>]

\* A descriptor whose strings point into the manifest instead of owning copies.
strdup_borrowing(site, failing) == "borrowed"

\* strdup and calloc: NULL when the allocation at `site` fails.
strdup(site, failing) == IF site \in failing THEN "null" ELSE "live"

calloc(site, failing) == IF site \in failing THEN "null" ELSE "live"

\* free(3): a no-op on NULL.
free(block) ==
    CASE block = "null" -> "null"
      [] block = "live" -> "freed"
      [] block = "freed" -> "double"
      [] OTHER -> "wild"

FreeDesc(descs) == {d \in DescSlots : descs[d].alloc = "none"}

NewDesc(descs) == CHOOSE d \in FreeDesc(descs) : \A e \in FreeDesc(descs) : d <= e

\* A synthesis that stores the manifest's own pointers instead of copies.
manifest_to_descriptor_sharing(descs, manifest, failing) ==
    IF "descriptor" \in failing \/ FreeDesc(descs) = {}
    THEN [ret |-> 0, descs |-> descs, crash |-> FALSE]
    ELSE LET src == IF Len(manifest.features) > 0 THEN manifest.features
                    ELSE DefaultFeatures
             desc ==
                [alloc |-> "live",
                 id |-> manifest.id,
                 str |-> [f \in StringFields |-> "borrowed"],
                 features |-> calloc("features", failing),
                 tags |-> IF calloc("features", failing) = "null" THEN <<>>
                          ELSE [i \in 1..Len(src) |->
                                  [name |-> src[i],
                                   alloc |-> IF Len(manifest.features) > 0
                                             THEN "borrowed" ELSE "live"]]]
         IN [ret |-> NewDesc(descs),
             descs |-> [descs EXCEPT ![NewDesc(descs)] = desc],
             crash |-> FALSE]

\* manifest.c:259-306.  The allocations at the sites of `failing` fail, and
\* the descriptor's calloc also fails when the heap is full.  No result of
\* strdup is tested; the feature strings are copied only into an array that
\* was allocated; the descriptor is returned whatever it holds.
manifest_to_descriptor(descs, manifest, failing) ==
    IF "descriptor" \in failing \/ FreeDesc(descs) = {}
    THEN [ret |-> 0, descs |-> descs, crash |-> FALSE]
    ELSE LET src == IF Len(manifest.features) > 0 THEN manifest.features
                    ELSE DefaultFeatures
             array == calloc("features", failing)
             \* manifest.c:287: strdup of a features[i] that is NULL is
             \* undefined; it faults, or it returns NULL when `failing` says so
             undefined == array # "null" /\ \E i \in 1..Len(src) : src[i] = NULL
             desc ==
                [alloc |-> "live",
                 id |-> IF "id" \in failing THEN NULL ELSE manifest.id,
                 str |-> [f \in StringFields |-> strdup(f, failing)],
                 features |-> array,
                 tags |-> IF array = "null" THEN <<>>
                          ELSE [i \in 1..Len(src) |->
                                  IF src[i] = NULL
                                  THEN [name |-> NULL, alloc |-> "null"]
                                  ELSE [name |-> IF FeatureSites[i] \in failing
                                                 THEN NULL ELSE src[i],
                                        alloc |-> strdup(FeatureSites[i], failing)]]]
         IN IF undefined /\ "strdup(NULL) returns NULL" \notin failing
            THEN [ret |-> 0, descs |-> descs, crash |-> TRUE]
            ELSE [ret |-> NewDesc(descs),
                  descs |-> [descs EXCEPT ![NewDesc(descs)] = desc],
                  crash |-> FALSE]

\* A load that synthesizes whether or not the entry is already loaded.
clapgo_load_manifest_plugin_again(registry, count, descs, index, failing) ==
    IF index < 0 \/ index >= count
    THEN [ret |-> FALSE, registry |-> registry, descs |-> descs, crash |-> FALSE]
    ELSE LET made == manifest_to_descriptor(descs, registry[index].manifest, failing)
         IN IF made.crash
            THEN [ret |-> FALSE, registry |-> registry, descs |-> descs, crash |-> TRUE]
            ELSE IF made.ret = 0
            THEN [ret |-> FALSE,
                  registry |-> [registry EXCEPT ![index].descriptor = 0],
                  descs |-> made.descs, crash |-> FALSE]
            ELSE [ret |-> TRUE,
                  registry |-> [registry EXCEPT ![index].descriptor = made.ret,
                                                ![index].loaded = TRUE],
                  descs |-> made.descs, crash |-> FALSE]

\* A load that marks the entry loaded before it synthesizes the descriptor.
clapgo_load_manifest_plugin_marking_first(registry, count, descs, index, failing) ==
    IF index < 0 \/ index >= count
    THEN [ret |-> FALSE, registry |-> registry, descs |-> descs, crash |-> FALSE]
    ELSE IF registry[index].loaded /\ registry[index].descriptor # 0
    THEN [ret |-> TRUE, registry |-> registry, descs |-> descs, crash |-> FALSE]
    ELSE LET made == manifest_to_descriptor(descs, registry[index].manifest, failing)
         IN [ret |-> made.ret # 0,
             registry |-> [registry EXCEPT ![index].descriptor = made.ret,
                                           ![index].loaded = TRUE],
             descs |-> made.descs, crash |-> made.crash]

\* bridge.c:190-219.
clapgo_load_manifest_plugin(registry, count, descs, index, failing) ==
    IF index < 0 \/ index >= count
    THEN [ret |-> FALSE, registry |-> registry, descs |-> descs, crash |-> FALSE]
    ELSE IF registry[index].loaded /\ registry[index].descriptor # 0
    THEN [ret |-> TRUE, registry |-> registry, descs |-> descs, crash |-> FALSE]
    ELSE LET made == manifest_to_descriptor(descs, registry[index].manifest, failing)
         IN IF made.crash
            THEN [ret |-> FALSE, registry |-> registry, descs |-> descs, crash |-> TRUE]
            ELSE IF made.ret = 0
            THEN [ret |-> FALSE,
                  registry |-> [registry EXCEPT ![index].descriptor = 0],
                  descs |-> made.descs, crash |-> FALSE]
            ELSE [ret |-> TRUE,
                  registry |-> [registry EXCEPT ![index].descriptor = made.ret,
                                                ![index].loaded = TRUE],
                  descs |-> made.descs, crash |-> FALSE]

\* A lookup that settles for the first entry whatever its id.
clapgo_find_manifest_plugin_by_id_any(registry, count, plugin_id) ==
    IF count > 0 THEN 0 ELSE -1

\* bridge.c:222-232.  -1 when no entry has the id.
clapgo_find_manifest_plugin_by_id(registry, count, plugin_id) ==
    IF plugin_id = NULL THEN -1
    ELSE LET hits == {i \in 0..(count - 1) : registry[i].manifest.id = plugin_id}
         IN IF hits = {} THEN -1
            ELSE CHOOSE i \in hits : \A j \in hits : i <= j


(***************************************************************************)
(* The Go module.  Its sources are not among the C files; the lifecycle it *)
(* keeps per instance is modelled from the design document, section 4.4:   *)
(* Created -> Initialized -> Activated -> Processing and back, a call      *)
(* outside its valid state is rejected and changes nothing.  `ok` is the   *)
(* module's own verdict when the call is in its valid state.               *)
(***************************************************************************)
ClapGo_PluginInit(state, ok) ==
    IF state = "Created" /\ ok
    THEN [ret |-> TRUE, state |-> "Initialized"]
    ELSE [ret |-> FALSE, state |-> state]

ClapGo_PluginActivate(state, ok) ==
    IF state = "Initialized" /\ ok
    THEN [ret |-> TRUE, state |-> "Activated"]
    ELSE [ret |-> FALSE, state |-> state]

ClapGo_PluginDeactivate(state) ==
    IF state = "Activated" THEN "Initialized" ELSE state

ClapGo_PluginStartProcessing(state, ok) ==
    IF state = "Activated" /\ ok
    THEN [ret |-> TRUE, state |-> "Processing"]
    ELSE [ret |-> FALSE, state |-> state]

ClapGo_PluginStopProcessing(state) ==
    IF state = "Processing" THEN "Activated" ELSE state

ClapGo_PluginReset(state) == state

ProcessStatuses ==
    {"CLAP_PROCESS_ERROR", "CLAP_PROCESS_CONTINUE", "CLAP_PROCESS_SLEEP"}

ClapGo_PluginProcess(state, status) ==
    IF state = "Processing" THEN status ELSE "CLAP_PROCESS_ERROR"

ClapGo_PluginDestroy(state) == "Destroyed"

LiveStates == {"Created", "Initialized", "Activated", "Processing"}

(***************************************************************************)
(* Host calls: shared plumbing.                                            *)
(***************************************************************************)
B2S(b) == IF b THEN "true" ELSE "false"

ZeroInfo ==
    [id |-> -1, name |-> "", flags |-> "", channel_count |-> 0,
     port_type |-> "", in_place_pair |-> -1]

Call(op, plugin, arg, result, ptr, calls) ==
    [op |-> op, plugin |-> plugin, arg |-> arg, result |-> result, ptr |-> ptr,
     calls |-> calls, has_info |-> FALSE, info |-> ZeroInfo]

\* The audio thread outside clapgo_plugin_process: no plugin, no pointer
\* read, no status returned yet.
IdleThread ==
    [pc |-> "idle", plugin |-> 0, go_instance |-> 0, entered_in |-> "", result |-> ""]

LivePlugins == {p \in Slots : plugins[p].alloc = "live"}

\* What a host passes as the plugin argument: a clap_plugin_t it holds, or
\* NULL (0).
HostPlugins == LivePlugins \cup {0}

DataOf(p) == plugin_data[plugins[p].plugin_data]

\* The guard every forwarding function opens with (bridge.c:438-441 and
\* alike): a plugin, its record and the record's module pointer.
Forwards(p) ==
    /\ p # 0
    /\ plugins[p].plugin_data # 0
    /\ DataOf(p).go_instance # 0

\* A call through an entry point the module does not define does not return.
Crash(op, p, sym) ==
    /\ crashed' = TRUE
    /\ last' = Call(op, p, "", "CRASH", 0, <<sym>>)
    /\ UNCHANGED <<exports, entry_layer, presets, converters, audio_thread, manifest_plugins, manifest_plugin_count, descriptors,
                   go_instances, plugin_data, plugins, created_flags>>

Registry == <<manifest_plugins, manifest_plugin_count, descriptors>>
Instances == <<go_instances, plugin_data, plugins, created_flags>>

(***************************************************************************)
(* The factory surface (bridge.c:331-434).                                 *)
(***************************************************************************)
\* bridge.c:331-351
ClapgoInit(local, installed, home) ==
    /\ ~crashed
    /\ LET found == clapgo_find_manifests(local, installed, home)
       IN /\ manifest_plugins' =
                IF found.count = 0 THEN found.registry
                ELSE [found.registry EXCEPT ![0].loaded = FALSE,
                                            ![0].descriptor = 0]
          /\ manifest_plugin_count' = found.count
          /\ last' = Call("clapgo_init", 0, found.path, B2S(found.count # 0), 0, <<>>)
    /\ UNCHANGED <<exports, entry_layer, presets, converters, audio_thread, descriptors, crashed>>
    /\ UNCHANGED Instances

\* The feature strings the loop of bridge.c:362-364 reaches: those before
\* the first NULL of the array.
LeadingFeatures(tags) ==
    CHOOSE n \in 0..Len(tags) :
        /\ \A i \in 1..n : tags[i].alloc # "null"
        /\ n = Len(tags) \/ tags[n + 1].alloc = "null"

\* bridge.c:358-383: the feature strings up to the first NULL and the array
\* when the array is not NULL, each string field that is not NULL, then the
\* descriptor.
FreeDescriptor(x) ==
    [alloc |-> free(x.alloc),
     id |-> x.id,
     str |-> [f \in StringFields |-> free(x.str[f])],
     features |-> free(x.features),
     tags |-> [i \in DOMAIN x.tags |->
                IF i <= LeadingFeatures(x.tags)
                THEN [x.tags[i] EXCEPT !.alloc = free(@)]
                ELSE x.tags[i]]]

(***************************************************************************)
(* The descriptor-copying entry layer (plugin.c:36-247).                   *)
(***************************************************************************)
\* plugin.c:37-54 before clapgo_init: no array, no copy.  plugin_descriptors
\* and descriptor_allocations are the two static pointers ("null" or
\* "array"), descriptor_array and allocation_array the heap blocks behind
\* them; slots[i] is plugin_descriptors[i-1] ("null" or "copy"), tracking[i]
\* is descriptor_allocations[i-1], copies[i] the heap blocks
\* create_descriptor_copy made for that index.
NoCopies ==
    [plugin_count |-> 0,
     plugin_descriptors |-> "null", descriptor_array |-> "null",
     descriptor_allocations |-> "null", allocation_array |-> "null",
     slots |-> <<>>, tracking |-> <<>>, copies |-> <<>>]

\* state_converter.c:23-34 at load, with the environment: no converter is
\* initialised; descriptors[k] is converter_descriptors[k - 1] with the text
\* its id, name, src_plugin_id.id and dst_plugin_id.id point to (NULL for a
\* NULL pointer), loaded[k] the file it was built from.  home tells whether
\* HOME is set; directory is $HOME/.clap/converters, its entries in readdir
\* order: whether the name ends in .json, whether json-c parses the file,
\* and the string values of its fields (MISSING for an absent field).
NoConverters ==
    [converters_initialized |-> FALSE, converter_count |-> 0,
     descriptors |-> <<>>, loaded |-> <<>>,
     home |-> TRUE, directory |-> [exists |-> FALSE, files |-> <<>>]]

\* preset_discovery.c:354-359 at load, with the environment: no descriptor
\* is initialised (provider_ids[k] is the buffer desc->id of descriptor k - 1
\* points to), no preset directory exists, and the host holds no provider.
\* A provider is the clap_preset_discovery_provider_t with its
\* provider_data_t (preset_discovery.h:8-13) and the indexer's two callbacks.
NoPresets ==
    [descriptors_initialized |-> FALSE, provider_ids |-> <<>>,
     directories |-> {},
     provider |-> [null |-> TRUE, provider_data |-> FALSE, desc |-> 0, plugin_id |-> "",
                   indexer |-> [null |-> TRUE, declare_filetype |-> FALSE,
                                declare_location |-> FALSE]]]

\* plugin.c:64-87 without the test of descriptor->features: the array is
\* released whenever the record says it was allocated.
free_descriptor_fields_by_record(desc, alloc_info) ==
    [desc EXCEPT
        !.str = [f \in StringFields |->
                    IF alloc_info[f] /\ desc.str[f] # "null"
                    THEN free(desc.str[f]) ELSE desc.str[f]],
        !.tags = IF alloc_info.features_array /\ alloc_info.features_strings
                 THEN [i \in DOMAIN desc.tags |-> [alloc |-> free(desc.tags[i].alloc)]]
                 ELSE desc.tags,
        !.features = IF alloc_info.features_array THEN free(desc.features)
                     ELSE desc.features]

\* plugin.c:64-87.  desc is the descriptor block with its string fields, the
\* pointer desc->features and the array and strings behind it.
free_descriptor_fields(desc, alloc_info) ==
    LET array == alloc_info.features_array /\ desc.features_ptr # "null"
    IN [desc EXCEPT
            !.str = [f \in StringFields |->
                        IF alloc_info[f] /\ desc.str[f] # "null"
                        THEN free(desc.str[f]) ELSE desc.str[f]],
            !.tags = IF array /\ alloc_info.features_strings
                     THEN [i \in DOMAIN desc.tags |->
                             IF i <= LeadingFeatures(desc.tags)
                             THEN [alloc |-> free(desc.tags[i].alloc)]
                             ELSE desc.tags[i]]
                     ELSE desc.tags,
            !.features = IF array THEN free(desc.features) ELSE desc.features]

\* plugin.c:90-169.  src is the source descriptor: whether there is one, the
\* string fields that are NULL in it and the length of its feature array
\* (-1: features is NULL).  The allocations at the sites of `failing` fail.
create_descriptor_copy(src, failing) ==
    LET none == [alloc |-> "none", str |-> [f \in StringFields |-> "null"],
                 features_ptr |-> "null", features |-> "null", tags |-> <<>>]
        zero == [f \in StringFields \cup {"features_array", "features_strings"} |-> FALSE]
    IN IF ~src.present \/ "descriptor" \in failing
       THEN [ret |-> "null", alloc_info |-> zero, desc |-> none]
       ELSE
       LET str == [f \in StringFields |->
                     IF f \in src.null_fields THEN "null" ELSE strdup(f, failing)]
           strings == [f \in DOMAIN zero |-> f \in StringFields /\ str[f] # "null"]
           desc == [none EXCEPT !.alloc = "live", !.str = str]
           tracked == [strings EXCEPT !.features_array = TRUE, !.features_strings = TRUE]
           tags == [i \in 1..src.features |-> [alloc |-> strdup(FeatureSites[i], failing)]]
           copied == LeadingFeatures(tags)
       IN IF src.features < 0
          THEN [ret |-> "copy", alloc_info |-> strings, desc |-> desc]
          ELSE IF calloc("features", failing) = "null"
          THEN [ret |-> "null", alloc_info |-> strings,
                desc |-> [free_descriptor_fields(desc, strings) EXCEPT !.alloc = free(@)]]
          ELSE IF copied < src.features
          THEN [ret |-> "null", alloc_info |-> tracked,
                desc |-> [free_descriptor_fields(
                            [desc EXCEPT !.features = free("live"),
                                         !.tags = [i \in 1..copied |-> [alloc |-> free("live")]]],
                            tracked)
                          EXCEPT !.alloc = free(@)]]
          ELSE [ret |-> "copy", alloc_info |-> tracked,
                desc |-> [desc EXCEPT !.features_ptr = "array", !.features = "live",
                                      !.tags = tags]]

\* manifest.c:308-315
manifest_free(manifest) == [manifest EXCEPT !.features = <<>>]

\* bridge.c:116-187, called directly (bridge.h:100).  The call is recorded
\* with the files it met.
ClapgoFindManifests(local, installed, home) ==
    /\ ~crashed
    /\ LET found == clapgo_find_manifests(local, installed, home)
       IN /\ manifest_plugins' = found.registry
          /\ manifest_plugin_count' = found.count
          /\ last' = Call("clapgo_find_manifests", 0, found.path, "", found.count,
                          found.probes)
                     @@ [local |-> local, installed |-> installed, home |-> home]
    /\ UNCHANGED <<exports, entry_layer, presets, converters, audio_thread, descriptors, crashed>>
    /\ UNCHANGED Instances

\* bridge.c:354-396: only the entries marked loaded are torn down.
clapgo_deinit(registry, count, descs) ==
    LET loadedIdx == {i \in 0..(count - 1) : registry[i].loaded}
        freed == {registry[i].descriptor : i \in loadedIdx} \ {0}
    IN [registry |->
            [i \in DOMAIN registry |->
                IF i \in loadedIdx
                THEN [manifest |-> manifest_free(registry[i].manifest),
                      descriptor |-> 0, loaded |-> FALSE]
                ELSE registry[i]],
        descs |-> [d \in DOMAIN descs |->
                    IF d \in freed THEN FreeDescriptor(descs[d])
                    ELSE descs[d]],
        count |-> 0]

ClapgoDeinit ==
    /\ ~crashed
    /\ LET r == clapgo_deinit(manifest_plugins, manifest_plugin_count, descriptors)
       IN /\ manifest_plugins' = r.registry
          /\ descriptors' = r.descs
          /\ manifest_plugin_count' = r.count
    /\ last' = Call("clapgo_deinit", 0, "", "", 0, <<>>)
    /\ UNCHANGED <<exports, entry_layer, presets, converters, audio_thread, crashed>>
    /\ UNCHANGED Instances

\* bridge.c:414-416
ClapgoGetPluginCount ==
    /\ ~crashed
    /\ last' = Call("clapgo_get_plugin_count", 0, "", "", manifest_plugin_count, <<>>)
    /\ UNCHANGED <<exports, entry_layer, presets, converters, audio_thread, crashed>>
    /\ UNCHANGED Registry
    /\ UNCHANGED Instances

\* bridge.c:190-219, called directly (bridge.h:103).
ClapgoLoadManifestPlugin(index, failing) ==
    /\ ~crashed
    /\ LET r == clapgo_load_manifest_plugin(manifest_plugins, manifest_plugin_count,
                                            descriptors, index, failing)
       IN /\ manifest_plugins' = r.registry
          /\ descriptors' = r.descs
          /\ last' = Call("clapgo_load_manifest_plugin", 0, "",
                          IF r.crash THEN "CRASH" ELSE B2S(r.ret), index, <<>>)
          /\ crashed' = r.crash
    /\ UNCHANGED <<exports, entry_layer, presets, converters, audio_thread, manifest_plugin_count>>
    /\ UNCHANGED Instances

\* bridge.c:399-411
clapgo_get_plugin_descriptor(registry, count, descs, index, failing) ==
    IF index >= count
    THEN [ret |-> 0, registry |-> registry, descs |-> descs, crash |-> FALSE]
    ELSE IF ~registry[index].loaded
    THEN LET l == clapgo_load_manifest_plugin(registry, count, descs, index, failing)
         IN [ret |-> IF l.ret THEN l.registry[index].descriptor ELSE 0,
             registry |-> l.registry, descs |-> l.descs, crash |-> l.crash]
    ELSE [ret |-> registry[index].descriptor, registry |-> registry, descs |-> descs,
          crash |-> FALSE]

ClapgoGetPluginDescriptor(index, failing) ==
    /\ ~crashed
    /\ LET r == clapgo_get_plugin_descriptor(manifest_plugins, manifest_plugin_count,
                                             descriptors, index, failing)
       IN /\ manifest_plugins' = r.registry
          /\ descriptors' = r.descs
          /\ last' = Call("clapgo_get_plugin_descriptor", 0, "",
                          IF r.crash THEN "CRASH"
                          ELSE IF r.ret = 0 THEN NULL ELSE "descriptor", r.ret, <<>>)
                     @@ [index |-> index]
          /\ crashed' = r.crash
    /\ UNCHANGED <<exports, entry_layer, presets, converters, audio_thread, manifest_plugin_count>>
    /\ UNCHANGED Instances

FreeSlots ==
    {k \in Slots : go_instances[k] = "None" /\ plugin_data[k].alloc = "none"}

NewSlot == CHOOSE k \in FreeSlots : \A j \in FreeSlots : k <= j

\* Creation without the check of bridge.c:253.
ConstructorNeverFailed(go_instance) == FALSE

\* bridge.c:253: `if (!go_instance)`, the constructor returned NULL.
ConstructorFailed(go_instance) == go_instance = 0

\* A record that does not keep the registry's descriptor pointer.
NewDataWithoutDescriptor(E, go_instance, descriptor, index) ==
    go_plugin_data_t("live", go_instance, 0, index, ExtensionFlags(E))

\* A record whose flag for an extension is set only if the manifest of the
\* entry does not declare that extension unsupported.
NewDataGatedByManifest(E, go_instance, descriptor, index) ==
    LET exts == manifest_plugins[index].manifest.extensions
        flagOf == [CLAP_EXT_PARAMS |-> "supports_params",
                   CLAP_EXT_STATE |-> "supports_state",
                   CLAP_EXT_NOTE_PORTS |-> "supports_note_ports"]
        refused == {flagOf[exts[i].id] :
                        i \in {j \in 1..Len(exts) : ~exts[j].supported}}
    IN go_plugin_data_t("live", go_instance, descriptor, index,
                        [f \in FlagNames |-> ExtensionFlags(E)[f] /\ f \notin refused])

\* bridge.c:260-301: the record a successful calloc is filled with.
NewData(E, go_instance, descriptor, index) ==
    go_plugin_data_t("live", go_instance, descriptor, index, ExtensionFlags(E))

\* bridge.c:419-434 with bridge.c:235-328.  failing: the allocations of
\* descriptor synthesis that fail; ctorOK, dataOK, pluginOK: whether the
\* module's constructor and the two callocs succeed.
ClapgoCreatePlugin(plugin_id, failing, ctorOK, dataOK, pluginOK) ==
    /\ ~crashed
    /\ LET index == clapgo_find_manifest_plugin_by_id(manifest_plugins,
                                                     manifest_plugin_count, plugin_id)
           op == "clapgo_create_plugin"
       IN IF index < 0
          THEN /\ last' = Call(op, 0, plugin_id, NULL, 0, <<>>)
               /\ UNCHANGED <<exports, entry_layer, presets, converters, audio_thread, crashed>>
               /\ UNCHANGED Registry
               /\ UNCHANGED Instances
          ELSE LET l == IF ~manifest_plugins[index].loaded
                        THEN clapgo_load_manifest_plugin(manifest_plugins,
                                manifest_plugin_count, descriptors, index, failing)
                        ELSE [ret |-> TRUE, registry |-> manifest_plugins,
                              descs |-> descriptors, crash |-> FALSE]
                   \* the module's constructor: a new Go instance, or NULL
                   g == IF ctorOK /\ FreeSlots # {} THEN NewSlot ELSE 0
                   k == IF g # 0 THEN g ELSE IF FreeSlots # {} THEN NewSlot ELSE 0
                   d == l.registry[index].descriptor
                   data == NewData(exports, g, d, index)
               IN /\ manifest_plugins' = l.registry
                  /\ descriptors' = l.descs
                  /\ UNCHANGED <<exports, entry_layer, presets, converters, audio_thread, manifest_plugin_count>>
                  /\ IF ~l.ret
                     THEN /\ last' = Call(op, 0, plugin_id,
                                          IF l.crash THEN "CRASH" ELSE NULL, 0, <<>>)
                          /\ crashed' = l.crash
                          /\ UNCHANGED Instances
                     ELSE IF "ClapGo_CreatePlugin" \notin exports
                     THEN /\ crashed' = TRUE
                          /\ last' = Call(op, 0, plugin_id, "CRASH", 0,
                                          <<"ClapGo_CreatePlugin">>)
                          /\ UNCHANGED Instances
                     ELSE /\ UNCHANGED crashed
                          /\ go_instances' =
                                IF g # 0 THEN [go_instances EXCEPT ![g] = "Created"]
                                ELSE go_instances
                          /\ IF ConstructorFailed(g)
                             THEN /\ last' = Call(op, 0, plugin_id, NULL, 0,
                                                  <<"ClapGo_CreatePlugin">>)
                                  /\ UNCHANGED <<plugin_data, plugins, created_flags>>
                             ELSE IF ~dataOK \/ k = 0
                             THEN /\ last' = Call(op, 0, plugin_id, NULL, 0,
                                        <<"ClapGo_CreatePlugin", "calloc data failed">>)
                                  /\ UNCHANGED <<plugin_data, plugins, created_flags>>
                             ELSE IF ~pluginOK
                             THEN /\ plugin_data' = [plugin_data EXCEPT ![k] =
                                        [data EXCEPT !.alloc = "freed"]]
                                  /\ last' = Call(op, 0, plugin_id, NULL, 0,
                                        <<"ClapGo_CreatePlugin", "calloc data",
                                          "calloc plugin failed", "free data">>)
                                  /\ UNCHANGED <<plugins, created_flags>>
                             ELSE /\ plugin_data' = [plugin_data EXCEPT ![k] = data]
                                  /\ plugins' = [plugins EXCEPT ![k] =
                                        [alloc |-> "live", desc |-> d, plugin_data |-> k]]
                                  /\ created_flags' =
                                        [created_flags EXCEPT ![k] = FlagsOf(data)]
                                  /\ last' = Call(op, k, plugin_id, "plugin", k,
                                        <<"ClapGo_CreatePlugin", "calloc data",
                                          "calloc plugin">>)

(***************************************************************************)
(* Lifecycle forwarding (bridge.c:437-531).  Each returns the module's     *)
(* result unchanged.                                                       *)
(***************************************************************************)
\* Forwarders that answer by themselves instead of returning the module's result.
clapgo_plugin_activate_always_true(modret) == TRUE
clapgo_plugin_process_always_continue(modret) == "CLAP_PROCESS_CONTINUE"

clapgo_plugin_init(modret) == modret
clapgo_plugin_activate(modret) == modret
clapgo_plugin_start_processing(modret) == modret
clapgo_plugin_process(modret) == modret

\* The Go instance behind plugin p.
GoOf(p) == DataOf(p).go_instance

\* A forwarder that answers "true" where the guard fails.
ForwardNotNeutral(op, p, sym, neutral, state, result) ==
    IF ~Forwards(p)
    THEN /\ last' = Call(op, p, "", "true", 0, <<>>)
         /\ UNCHANGED <<exports, entry_layer, presets, converters, audio_thread, crashed>>
         /\ UNCHANGED Registry
         /\ UNCHANGED Instances
    ELSE IF sym \notin exports
    THEN Crash(op, p, sym)
    ELSE /\ go_instances' = [go_instances EXCEPT ![GoOf(p)] = state]
         /\ last' = Call(op, p, "", result, 0, <<sym>>)
         /\ UNCHANGED <<exports, entry_layer, presets, converters, audio_thread, crashed, plugin_data, plugins, created_flags>>
         /\ UNCHANGED Registry

\* A forwarding call whose module entry point returns a value and may change
\* the module's state of the instance.
Forward(op, p, sym, neutral, state, result) ==
    IF ~Forwards(p)
    THEN /\ last' = Call(op, p, "", neutral, 0, <<>>)
         /\ UNCHANGED <<exports, entry_layer, presets, converters, audio_thread, crashed>>
         /\ UNCHANGED Registry
         /\ UNCHANGED Instances
    ELSE IF sym \notin exports
    THEN Crash(op, p, sym)
    ELSE /\ go_instances' = [go_instances EXCEPT ![GoOf(p)] = state]
         /\ last' = Call(op, p, "", result, 0, <<sym>>)
         /\ UNCHANGED <<exports, entry_layer, presets, converters, audio_thread, crashed, plugin_data, plugins, created_flags>>
         /\ UNCHANGED Registry

\* bridge.c:437-445
PluginInit(p, ok) ==
    /\ ~crashed /\ p \in HostPlugins
    /\ LET r == ClapGo_PluginInit(go_instances[GoOf(p)], ok)
       IN Forward("clapgo_plugin_init", p, "ClapGo_PluginInit", "false",
                  r.state, B2S(clapgo_plugin_init(r.ret)))

\* bridge.c:467-476
PluginActivate(p, ok) ==
    /\ ~crashed /\ p \in HostPlugins
    /\ LET r == ClapGo_PluginActivate(go_instances[GoOf(p)], ok)
       IN Forward("clapgo_plugin_activate", p, "ClapGo_PluginActivate", "false",
                  r.state, B2S(clapgo_plugin_activate(r.ret)))

\* bridge.c:479-487
PluginDeactivate(p) ==
    /\ ~crashed /\ p \in HostPlugins
    /\ Forward("clapgo_plugin_deactivate", p, "ClapGo_PluginDeactivate", "",
               ClapGo_PluginDeactivate(go_instances[GoOf(p)]), "")

\* bridge.c:490-498
PluginStartProcessing(p, ok) ==
    /\ ~crashed /\ p \in HostPlugins
    /\ LET r == ClapGo_PluginStartProcessing(go_instances[GoOf(p)], ok)
       IN Forward("clapgo_plugin_start_processing", p, "ClapGo_PluginStartProcessing",
                  "false", r.state, B2S(clapgo_plugin_start_processing(r.ret)))

\* bridge.c:501-509
PluginStopProcessing(p) ==
    /\ ~crashed /\ p \in HostPlugins
    /\ Forward("clapgo_plugin_stop_processing", p, "ClapGo_PluginStopProcessing", "",
               ClapGo_PluginStopProcessing(go_instances[GoOf(p)]), "")

\* bridge.c:512-520
PluginReset(p) ==
    /\ ~crashed /\ p \in HostPlugins
    /\ Forward("clapgo_plugin_reset", p, "ClapGo_PluginReset", "",
               ClapGo_PluginReset(go_instances[GoOf(p)]), "")

\* bridge.c:523-531, called with a non-null process
PluginProcess(p, status) ==
    /\ ~crashed /\ p \in HostPlugins
    /\ Forward("clapgo_plugin_process", p, "ClapGo_PluginProcess", "CLAP_PROCESS_ERROR",
               go_instances[GoOf(p)],
               clapgo_plugin_process(ClapGo_PluginProcess(go_instances[GoOf(p)], status)))

\* A destroy that frees the record without calling the module's destructor.
clapgo_plugin_destroy_without_destructor(go_instance) ==
    <<"free data", "free plugin">>

\* bridge.c:455-463: what clapgo_plugin_destroy does, in order, for a record
\* with this module pointer.
clapgo_plugin_destroy(go_instance) ==
    IF go_instance # 0
    THEN <<"ClapGo_PluginDestroy", "free data", "free plugin">>
    ELSE <<"free data", "free plugin">>

\* bridge.c:448-464
PluginDestroy(p) ==
    /\ ~crashed /\ p \in HostPlugins
    /\ LET k == plugins[p].plugin_data
           g == plugin_data[k].go_instance
           steps == clapgo_plugin_destroy(g)
       IN IF p = 0 \/ k = 0
          THEN /\ last' = Call("clapgo_plugin_destroy", p, "", "", 0, <<>>)
               /\ UNCHANGED <<exports, entry_layer, presets, converters, audio_thread, crashed>>
               /\ UNCHANGED Registry
               /\ UNCHANGED Instances
          ELSE IF steps[1] = "ClapGo_PluginDestroy"
                  /\ "ClapGo_PluginDestroy" \notin exports
          THEN Crash("clapgo_plugin_destroy", p, "ClapGo_PluginDestroy")
          ELSE /\ go_instances' =
                    IF g # 0 /\ steps[1] = "ClapGo_PluginDestroy"
                    THEN [go_instances EXCEPT ![g] = ClapGo_PluginDestroy(go_instances[g])]
                    ELSE go_instances
               /\ plugin_data' = [plugin_data EXCEPT ![k].alloc = "freed"]
               /\ plugins' = [plugins EXCEPT ![p].alloc = "freed"]
               /\ last' = Call("clapgo_plugin_destroy", p, "", "", 0, steps)
               /\ UNCHANGED <<exports, entry_layer, presets, converters, audio_thread, crashed, created_flags>>
               /\ UNCHANGED Registry


(***************************************************************************)
(* The extension dispatcher (bridge.c:748-958).                            *)
(***************************************************************************)
\* The ids answered from a capability flag: the flag consulted and the table
\* returned when it is set.
GatedExtensions ==
    [CLAP_EXT_PARAMS |->
        [flag |-> "supports_params", table |-> "s_params_extension"],
     CLAP_EXT_STATE |->
        [flag |-> "supports_state", table |-> "s_state_extension"],
     CLAP_EXT_STATE_CONTEXT |->
        [flag |-> "supports_state_context", table |-> "s_state_context_extension"],
     CLAP_EXT_NOTE_PORTS |->
        [flag |-> "supports_note_ports", table |-> "s_note_ports_extension"],
     CLAP_EXT_LATENCY |->
        [flag |-> "supports_latency", table |-> "s_latency_extension"],
     CLAP_EXT_TAIL |->
        [flag |-> "supports_tail", table |-> "s_tail_extension"],
     CLAP_EXT_TIMER_SUPPORT |->
        [flag |-> "supports_timer", table |-> "s_timer_support_extension"],
     CLAP_EXT_AUDIO_PORTS_CONFIG |->
        [flag |-> "supports_audio_ports_config", table |-> "s_audio_ports_config_extension"],
     CLAP_EXT_AUDIO_PORTS_CONFIG_INFO |->
        [flag |-> "supports_audio_ports_config", table |-> "s_audio_ports_config_info_extension"],
     CLAP_EXT_AUDIO_PORTS_CONFIG_INFO_COMPAT |->
        [flag |-> "supports_audio_ports_config", table |-> "s_audio_ports_config_info_extension"],
     CLAP_EXT_SURROUND |->
        [flag |-> "supports_surround", table |-> "s_surround_extension"],
     CLAP_EXT_SURROUND_COMPAT |->
        [flag |-> "supports_surround", table |-> "s_surround_extension"],
     CLAP_EXT_VOICE_INFO |->
        [flag |-> "supports_voice_info", table |-> "s_voice_info_extension"],
     CLAP_EXT_PRESET_LOAD |->
        [flag |-> "supports_preset_load", table |-> "s_preset_load_extension"],
     CLAP_EXT_TRACK_INFO |->
        [flag |-> "supports_track_info", table |-> "s_track_info_extension"],
     CLAP_EXT_TRACK_INFO_COMPAT |->
        [flag |-> "supports_track_info", table |-> "s_track_info_extension"],
     CLAP_EXT_PARAM_INDICATION |->
        [flag |-> "supports_param_indication", table |-> "s_param_indication_extension"],
     CLAP_EXT_PARAM_INDICATION_COMPAT |->
        [flag |-> "supports_param_indication", table |-> "s_param_indication_extension"],
     CLAP_EXT_CONTEXT_MENU |->
        [flag |-> "supports_context_menu", table |-> "s_context_menu_extension"],
     CLAP_EXT_CONTEXT_MENU_COMPAT |->
        [flag |-> "supports_context_menu", table |-> "s_context_menu_extension"],
     CLAP_EXT_REMOTE_CONTROLS |->
        [flag |-> "supports_remote_controls", table |-> "s_remote_controls_extension"],
     CLAP_EXT_REMOTE_CONTROLS_COMPAT |->
        [flag |-> "supports_remote_controls", table |-> "s_remote_controls_extension"],
     CLAP_EXT_NOTE_NAME |->
        [flag |-> "supports_note_name", table |-> "s_note_name_extension"],
     CLAP_EXT_AMBISONIC |->
        [flag |-> "supports_ambisonic", table |-> "s_ambisonic_extension"],
     CLAP_EXT_AMBISONIC_COMPAT |->
        [flag |-> "supports_ambisonic", table |-> "s_ambisonic_extension"],
     CLAP_EXT_AUDIO_PORTS_ACTIVATION |->
        [flag |-> "supports_audio_ports_activation", table |-> "s_audio_ports_activation_extension"],
     CLAP_EXT_AUDIO_PORTS_ACTIVATION_COMPAT |->
        [flag |-> "supports_audio_ports_activation", table |-> "s_audio_ports_activation_extension"]]

GatedIds == DOMAIN GatedExtensions

FixedIds == GatedIds \cup {"CLAP_EXT_AUDIO_PORTS"}

\* A dispatcher that answers from the table alone, without the flag.
FixedExtensionUngated(data, id) ==
    IF id = "CLAP_EXT_AUDIO_PORTS" THEN "s_audio_ports_extension"
    ELSE GatedExtensions[id].table

\* A dispatcher that answers a gated id only once the instance is initialized.
FixedExtensionOnceInitialized(data, id) ==
    IF id = "CLAP_EXT_AUDIO_PORTS" THEN "s_audio_ports_extension"
    ELSE IF data[GatedExtensions[id].flag] /\ go_instances[data.go_instance] # "Created"
    THEN GatedExtensions[id].table
    ELSE NULL

\* bridge.c:756-952 for a fixed id: the table, or NULL.
FixedExtension(data, id) ==
    IF id = "CLAP_EXT_AUDIO_PORTS" THEN "s_audio_ports_extension"
    ELSE IF data[GatedExtensions[id].flag] THEN GatedExtensions[id].table
    ELSE NULL

\* A dispatcher that asks the module first and falls back on its own tables.
PluginGetExtensionAskingFirst(p, id, modret) ==
    /\ ~crashed /\ p \in LivePlugins
    /\ last' = Call("clapgo_plugin_get_extension", p, id,
                    IF ~Forwards(p) THEN NULL
                    ELSE IF modret # NULL \/ id \notin FixedIds THEN modret
                    ELSE FixedExtension(DataOf(p), id),
                    0, IF Forwards(p) THEN <<"ClapGo_PluginGetExtension">> ELSE <<>>)
                @@ [modret |-> modret]
    /\ UNCHANGED <<exports, entry_layer, presets, converters, audio_thread, crashed>>
    /\ UNCHANGED Registry
    /\ UNCHANGED Instances

\* bridge.c:748-958.  modret is what the module's own get-extension returns.
PluginGetExtension(p, id, modret) ==
    /\ ~crashed /\ p \in LivePlugins
    /\ LET op == "clapgo_plugin_get_extension"
       IN IF ~Forwards(p)
          THEN /\ last' = Call(op, p, id, NULL, 0, <<>>) @@ [modret |-> modret]
               /\ UNCHANGED crashed
          ELSE IF id \in FixedIds
          THEN /\ last' = Call(op, p, id, FixedExtension(DataOf(p), id), 0, <<>>)
                          @@ [modret |-> modret]
               /\ UNCHANGED crashed
          ELSE IF "ClapGo_PluginGetExtension" \notin exports
          THEN /\ last' = Call(op, p, id, "CRASH", 0, <<"ClapGo_PluginGetExtension">>)
                          @@ [modret |-> modret]
               /\ crashed' = TRUE
          ELSE /\ last' = Call(op, p, id, modret, 0, <<"ClapGo_PluginGetExtension">>)
                          @@ [modret |-> modret]
               /\ UNCHANGED crashed
    /\ UNCHANGED <<exports, entry_layer, presets, converters, audio_thread>>
    /\ UNCHANGED Registry
    /\ UNCHANGED Instances

(***************************************************************************)
(* The built-in audio-ports table (bridge.c:534-537, 718-745).             *)
(***************************************************************************)
\* bridge.c:718-724
clapgo_audio_ports_count(p, is_input) == 1

\* The port query without the index check of bridge.c:730.
clapgo_audio_ports_info_any_index(p, index, is_input, has_info) ==
    IF ~has_info
    THEN [ret |-> FALSE, info |-> ZeroInfo]
    ELSE [ret |-> TRUE,
          info |-> [id |-> 0,
                    name |-> IF is_input THEN "Audio Input" ELSE "Audio Output",
                    flags |-> "CLAP_AUDIO_PORT_IS_MAIN",
                    channel_count |-> 2,
                    port_type |-> "CLAP_PORT_STEREO",
                    in_place_pair |-> 0]]

\* bridge.c:727-745.  has_info: the info pointer is non-null.
clapgo_audio_ports_info(p, index, is_input, has_info) ==
    IF index # 0 \/ ~has_info
    THEN [ret |-> FALSE, info |-> ZeroInfo]
    ELSE [ret |-> TRUE,
          info |-> [id |-> 0,
                    name |-> IF is_input THEN "Audio Input" ELSE "Audio Output",
                    flags |-> "CLAP_AUDIO_PORT_IS_MAIN",
                    channel_count |-> 2,
                    port_type |-> "CLAP_PORT_STEREO",
                    in_place_pair |-> 0]]

AudioPortsCount(p, is_input) ==
    /\ ~crashed /\ p \in LivePlugins
    /\ last' = Call("clapgo_audio_ports_count", p, B2S(is_input), "",
                    clapgo_audio_ports_count(p, is_input), <<>>)
    /\ UNCHANGED <<exports, entry_layer, presets, converters, audio_thread, crashed>>
    /\ UNCHANGED Registry
    /\ UNCHANGED Instances

AudioPortsInfo(p, index, is_input, has_info) ==
    /\ ~crashed /\ p \in LivePlugins
    /\ LET r == clapgo_audio_ports_info(p, index, is_input, has_info)
       IN last' = [Call("clapgo_audio_ports_info", p, B2S(is_input), B2S(r.ret),
                        index, <<>>) EXCEPT !.has_info = has_info, !.info = r.info]
    /\ UNCHANGED <<exports, entry_layer, presets, converters, audio_thread, crashed>>
    /\ UNCHANGED Registry
    /\ UNCHANGED Instances

(***************************************************************************)
(* The extension forwarders (bridge.c:961-1517).  Each opens with the      *)
(* guard of Forwards; `checked` ones then test that the weak entry point   *)
(* is defined; each returns `neutral` when it does not reach the module.   *)
(***************************************************************************)
Forwarders ==
    [
     clapgo_plugin_on_main_thread |->
        [sym |-> "ClapGo_PluginOnMainThread", neutral |-> "", checked |-> FALSE],
     clapgo_params_count |->
        [sym |-> "ClapGo_PluginParamsCount", neutral |-> "0", checked |-> FALSE],
     clapgo_params_get_info |->
        [sym |-> "ClapGo_PluginParamsGetInfo", neutral |-> "false", checked |-> FALSE],
     clapgo_params_get_value |->
        [sym |-> "ClapGo_PluginParamsGetValue", neutral |-> "false", checked |-> FALSE],
     clapgo_params_value_to_text |->
        [sym |-> "ClapGo_PluginParamsValueToText", neutral |-> "false", checked |-> FALSE],
     clapgo_params_text_to_value |->
        [sym |-> "ClapGo_PluginParamsTextToValue", neutral |-> "false", checked |-> FALSE],
     clapgo_params_flush |->
        [sym |-> "ClapGo_PluginParamsFlush", neutral |-> "", checked |-> FALSE],
     clapgo_state_save |->
        [sym |-> "ClapGo_PluginStateSave", neutral |-> "false", checked |-> FALSE],
     clapgo_state_load |->
        [sym |-> "ClapGo_PluginStateLoad", neutral |-> "false", checked |-> FALSE],
     clapgo_note_ports_count |->
        [sym |-> "ClapGo_PluginNotePortsCount", neutral |-> "0", checked |-> TRUE],
     clapgo_note_ports_get |->
        [sym |-> "ClapGo_PluginNotePortsGet", neutral |-> "false", checked |-> TRUE],
     clapgo_latency_get |->
        [sym |-> "ClapGo_PluginLatencyGet", neutral |-> "0", checked |-> TRUE],
     clapgo_tail_get |->
        [sym |-> "ClapGo_PluginTailGet", neutral |-> "0", checked |-> TRUE],
     clapgo_timer_on_timer |->
        [sym |-> "ClapGo_PluginOnTimer", neutral |-> "", checked |-> TRUE],
     clapgo_audio_ports_config_count |->
        [sym |-> "ClapGo_PluginAudioPortsConfigCount", neutral |-> "0", checked |-> TRUE],
     clapgo_audio_ports_config_get |->
        [sym |-> "ClapGo_PluginAudioPortsConfigGet", neutral |-> "false", checked |-> TRUE],
     clapgo_audio_ports_config_select |->
        [sym |-> "ClapGo_PluginAudioPortsConfigSelect", neutral |-> "false", checked |-> TRUE],
     clapgo_audio_ports_config_info_current_config |->
        [sym |-> "ClapGo_PluginAudioPortsConfigCurrentConfig", neutral |-> "CLAP_INVALID_ID", checked |-> TRUE],
     clapgo_audio_ports_config_info_get |->
        [sym |-> "ClapGo_PluginAudioPortsConfigGetInfo", neutral |-> "false", checked |-> TRUE],
     clapgo_surround_is_channel_mask_supported |->
        [sym |-> "ClapGo_PluginSurroundIsChannelMaskSupported", neutral |-> "false", checked |-> TRUE],
     clapgo_surround_get_channel_map |->
        [sym |-> "ClapGo_PluginSurroundGetChannelMap", neutral |-> "0", checked |-> TRUE],
     clapgo_voice_info_get |->
        [sym |-> "ClapGo_PluginVoiceInfoGet", neutral |-> "false", checked |-> TRUE],
     clapgo_state_context_save |->
        [sym |-> "ClapGo_PluginStateSaveWithContext", neutral |-> "false", checked |-> TRUE],
     clapgo_state_context_load |->
        [sym |-> "ClapGo_PluginStateLoadWithContext", neutral |-> "false", checked |-> TRUE],
     clapgo_preset_load_from_location |->
        [sym |-> "ClapGo_PluginPresetLoadFromLocation", neutral |-> "false", checked |-> TRUE],
     clapgo_track_info_changed |->
        [sym |-> "ClapGo_PluginTrackInfoChanged", neutral |-> "", checked |-> TRUE],
     clapgo_param_indication_set_mapping |->
        [sym |-> "ClapGo_PluginParamIndicationSetMapping", neutral |-> "", checked |-> TRUE],
     clapgo_param_indication_set_automation |->
        [sym |-> "ClapGo_PluginParamIndicationSetAutomation", neutral |-> "", checked |-> TRUE],
     clapgo_context_menu_populate |->
        [sym |-> "ClapGo_PluginContextMenuPopulate", neutral |-> "false", checked |-> TRUE],
     clapgo_context_menu_perform |->
        [sym |-> "ClapGo_PluginContextMenuPerform", neutral |-> "false", checked |-> TRUE],
     clapgo_remote_controls_count |->
        [sym |-> "ClapGo_PluginRemoteControlsCount", neutral |-> "0", checked |-> TRUE],
     clapgo_remote_controls_get |->
        [sym |-> "ClapGo_PluginRemoteControlsGet", neutral |-> "false", checked |-> TRUE],
     clapgo_note_name_count |->
        [sym |-> "ClapGo_PluginNoteNameCount", neutral |-> "0", checked |-> TRUE],
     clapgo_note_name_get |->
        [sym |-> "ClapGo_PluginNoteNameGet", neutral |-> "false", checked |-> TRUE],
     clapgo_ambisonic_is_config_supported |->
        [sym |-> "ClapGo_PluginAmbisonicIsConfigSupported", neutral |-> "false", checked |-> TRUE],
     clapgo_ambisonic_get_config |->
        [sym |-> "ClapGo_PluginAmbisonicGetConfig", neutral |-> "false", checked |-> TRUE],
     clapgo_audio_ports_activation_can_activate_while_processing |->
        [sym |-> "ClapGo_PluginAudioPortsActivationCanActivateWhileProcessing", neutral |-> "false", checked |-> TRUE],
     clapgo_audio_ports_activation_set_active |->
        [sym |-> "ClapGo_PluginAudioPortsActivationSetActive", neutral |-> "false", checked |-> TRUE]]

\* A call of forwarder fn.  What the module does in it is not modelled: the
\* call leaves the module's lifecycle state alone and returns "module".
ExtensionForward(p, fn) ==
    /\ ~crashed /\ p \in HostPlugins
    /\ LET f == Forwarders[fn]
       IN IF Forwards(p) /\ f.checked /\ f.sym \notin exports
          THEN /\ last' = Call(fn, p, "", f.neutral, 0, <<>>)
               /\ UNCHANGED <<exports, entry_layer, presets, converters, audio_thread, crashed>>
               /\ UNCHANGED Registry
               /\ UNCHANGED Instances
          ELSE Forward(fn, p, f.sym, f.neutral, go_instances[GoOf(p)], "module")

(***************************************************************************)
(* Module builds.  A linked module defines every plain extern; which weak  *)
(* entry points it defines varies.                                         *)
(***************************************************************************)
\* The weak entry points of at most one extension, any subset of them.
OneGroupExports ==
    UNION {SUBSET SymbolGroup[f] : f \in WeakFlagNames}

\* Every build that exports weak entry points of at most one extension, and
\* the build that exports them all.
CapabilityBuilds ==
    {StrongSymbols \cup W : W \in OneGroupExports} \cup {AllSymbols}

\* No optional extension beyond the plain externs, one half of a pair, all.
Builds ==
    {StrongSymbols, StrongSymbols \cup {"ClapGo_PluginNotePortsCount"}, AllSymbols}

\* A shared object whose undefined plain externs are bound lazily: one of
\* them, or the whole state or parameter group, is not defined by the module;
\* and the build that defines only the mandatory and the parameter entry points.
LazyBuilds ==
    {MandatorySymbols \cup SymbolGroup.supports_params} \cup
    {StrongSymbols \ M :
        M \in {{x} : x \in StrongSymbols}
              \cup {SymbolGroup.supports_state, SymbolGroup.supports_params,
                    SymbolGroup.supports_params \ {"ClapGo_PluginParamsCount"}}}

InitWith(builds) ==
    /\ exports \in builds
    /\ manifest_plugins = ZeroRegistry
    /\ manifest_plugin_count = 0
    /\ descriptors = [d \in DescSlots |-> ZeroDescriptor]
    /\ go_instances = [k \in Slots |-> "None"]
    /\ plugin_data = [k \in Slots |-> go_plugin_data_t("none", 0, 0, 0, ZeroFlags)]
    /\ plugins = [k \in Slots |-> [alloc |-> "none", desc |-> 0, plugin_data |-> 0]]
    /\ created_flags = [k \in Slots |-> ZeroFlags]
    /\ last = Call("none", 0, "", "", 0, <<>>)
    /\ crashed = FALSE
    /\ audio_thread = IdleThread
    /\ entry_layer = NoCopies
    /\ presets = NoPresets
    /\ converters = NoConverters

TheDoc == GoodDoc("com.example.gain")

\* Ids of each kind the dispatcher tells apart: a plain-extern group, a weak
\* group, the built-in table, and an id the bridge does not know.
SomeExtensionIds ==
    {"CLAP_EXT_PARAMS", "CLAP_EXT_STATE", "CLAP_EXT_NOTE_PORTS",
     "CLAP_EXT_AUDIO_PORTS", "CLAP_EXT_GUI"}

\* The module's answer matters only for an id the bridge passes on.
ModuleAnswers(id) == IF id \in FixedIds THEN {NULL} ELSE {NULL, "go_extension"}

\* The manifest files the search can meet: one next to the plugin, or none
\* there and one (or none) under $HOME/.clap, with HOME set or not.
ManifestFiles ==
    {<<local, NoFile, TRUE>> : local \in Docs}
    \cup {<<NoFile, installed, home>> :
            installed \in {NoFile, GoodDoc("com.example.synth"), BrokenDoc},
            home \in BOOLEAN}

\* The host creates a first instance.
FirstInstance == FreeSlots = Slots

\* The host initialises a bridge that holds no manifest.
FirstInit == manifest_plugin_count = 0

\* The first step of a creation to fail, if any: descriptor synthesis, the
\* module's constructor, the record's calloc, the clap_plugin_t's calloc.
\* The steps after a failed one are not reached.
CreateOutcomes ==
    {<<AllocOK, TRUE, TRUE, TRUE>>, <<{"descriptor"}, TRUE, TRUE, TRUE>>,
     <<AllocOK, FALSE, TRUE, TRUE>>, <<AllocOK, TRUE, FALSE, TRUE>>,
     <<AllocOK, TRUE, TRUE, FALSE>>}

\* The host's lifecycle calls with a plugin argument of P.
LifecycleCallsOn(P) ==
    \/ \E p \in P, ok \in BOOLEAN : PluginInit(p, ok)
    \/ \E p \in P, ok \in BOOLEAN : PluginActivate(p, ok)
    \/ \E p \in P : PluginDeactivate(p)
    \/ \E p \in P, ok \in BOOLEAN : PluginStartProcessing(p, ok)
    \/ \E p \in P : PluginStopProcessing(p)
    \/ \E p \in P : PluginReset(p)
    \/ \E p \in P, status \in ProcessStatuses : PluginProcess(p, status)

\* The host's lifecycle calls on an instance.
LifecycleCalls == LifecycleCallsOn(Slots)

ExtensionCalls(ids) ==
    \E p \in Slots, id \in ids : \E modret \in ModuleAnswers(id) :
        PluginGetExtension(p, id, modret)

(***************************************************************************)
(* Spec: one well-formed manifest next to the plugin; creation, lifecycle, *)
(* extension and destroy calls on up to MaxInst instances in any order.    *)
(***************************************************************************)
Init == InitWith(Builds)

Next ==
    \/ FirstInit /\ ClapgoInit(TheDoc, NoFile, TRUE)
    \/ \E id \in {"com.example.gain", NULL, "com.example.unknown"}, ctorOK \in BOOLEAN :
            ClapgoCreatePlugin(id, AllocOK, ctorOK, TRUE, TRUE)
    \/ LifecycleCalls
    \/ \E p \in Slots : PluginDestroy(p)
    \/ ExtensionCalls(SomeExtensionIds)

Spec == Init /\ [][Next]_vars

(***************************************************************************)
(* SpecCaps: every capability build; one instance, the dispatcher over     *)
(* every id and the audio-ports table.                                     *)
(***************************************************************************)

NextCaps ==
    \/ FirstInit /\ ClapgoInit(TheDoc, NoFile, TRUE)
    \/ \E ctorOK \in BOOLEAN :
            FirstInstance /\ ClapgoCreatePlugin("com.example.gain", AllocOK, ctorOK, TRUE, TRUE)
    \/ \E p \in Slots : PluginDestroy(p)
    \/ ExtensionCalls((FixedIds \cup {"CLAP_EXT_GUI", "com.example.custom"}))
    \/ \E p \in Slots, is_input \in BOOLEAN : AudioPortsCount(p, is_input)
    \/ \E p \in Slots, index \in 0..1, is_input, has_info \in BOOLEAN :
            AudioPortsInfo(p, index, is_input, has_info)

SpecCaps == InitWith(CapabilityBuilds) /\ [][NextCaps]_vars

(***************************************************************************)
(* SpecLazy: builds in which a plain extern is left undefined; one         *)
(* instance.                                                               *)
(***************************************************************************)

NextLazy ==
    \/ FirstInit /\ ClapgoInit(TheDoc, NoFile, TRUE)
    \/ ClapgoGetPluginCount
    \/ ClapgoGetPluginDescriptor(0, AllocOK)
    \/ \E ctorOK \in BOOLEAN :
            FirstInstance /\ ClapgoCreatePlugin("com.example.gain", AllocOK, ctorOK, TRUE, TRUE)
    \/ LifecycleCalls
    \/ \E p \in Slots : PluginDestroy(p)
    \/ ExtensionCalls(SomeExtensionIds)

SpecLazy == InitWith(LazyBuilds) /\ [][NextLazy]_vars

(***************************************************************************)
(* SpecRegistry: every manifest document at either search location, every  *)
(* allocation free to fail; the factory surface.  The host initialises the *)
(* bridge again only while the registry holds no descriptor.               *)
(***************************************************************************)
InitRegistry == InitWith({AllSymbols})

NextRegistry ==
    \/ \E f \in ManifestFiles :
            (\A i \in 0..(manifest_plugin_count - 1) : manifest_plugins[i].descriptor = 0)
            /\ ClapgoInit(f[1], f[2], f[3])
    \/ ClapgoDeinit
    \/ ClapgoGetPluginCount
    \/ \E index \in 0..1, failing \in {AllocOK, {"descriptor"}} :
            ClapgoGetPluginDescriptor(index, failing)
    \/ \E id \in {"com.example.gain", "com.example.synth"} \cup {NULL}, ok \in CreateOutcomes :
            FirstInstance /\ ClapgoCreatePlugin(id, ok[1], ok[2], ok[3], ok[4])
    \/ \E p \in Slots : PluginDestroy(p)

SpecRegistry == InitRegistry /\ [][NextRegistry]_vars

(***************************************************************************)
(* SpecDescriptor: a manifest with zero to MaxFeatures feature tags, any   *)
(* single allocation of the synthesis free to fail; one synthesis and its  *)
(* teardown.                                                               *)
(***************************************************************************)
\* Valid manifest files that declare the first n of four feature tags.
FeatureDocs ==
    {[TheDoc EXCEPT !.features =
            SubSeq(<<"instrument", "synthesizer", "stereo", "mono">>, 1, n)] :
        n \in 0..MaxFeatures}

\* No allocation fails, or exactly one does.
Failures == {AllocOK} \cup {{site} : site \in AllocSites}

\* The bridge is initialised only before any descriptor was synthesized.
NextDescriptor ==
    \/ \E doc \in FeatureDocs :
            (\A d \in DescSlots : descriptors[d].alloc = "none")
            /\ ClapgoInit(doc, NoFile, TRUE)
    \/ \E failing \in Failures : ClapgoLoadManifestPlugin(0, failing)
    \/ \E failing \in Failures : ClapgoGetPluginDescriptor(0, failing)
    \/ \E failing \in Failures :
            FirstInstance /\ ClapgoCreatePlugin("com.example.gain", failing, TRUE, TRUE, TRUE)
    \/ \E p \in Slots : PluginDestroy(p)
    \/ ClapgoDeinit

SpecDescriptor == InitRegistry /\ [][NextDescriptor]_vars

(***************************************************************************)
(* SpecDiscovery: the manifest search over every pair of files at the two  *)
(* locations, with HOME set or not.                                        *)
(***************************************************************************)
NextDiscovery ==
    \/ \E local \in Docs \cup {NoFile},
          installed \in {NoFile, GoodDoc("com.example.synth"), BrokenDoc},
          home \in BOOLEAN : ClapgoFindManifests(local, installed, home)
    \/ ClapgoGetPluginCount
    \/ ClapgoGetPluginDescriptor(0, AllocOK)

SpecDiscovery == InitRegistry /\ [][NextDiscovery]_vars

(***************************************************************************)
(* SpecNull: the forwarders called with a NULL plugin, with a              *)
(* clap_plugin_t whose plugin_data is NULL, with a record whose module     *)
(* pointer is NULL, and with one instance the bridge created.              *)
(***************************************************************************)
\* Slot 1 holds structures the caller made itself: a record without module
\* instance, and a clap_plugin_t that points to it or has plugin_data NULL.
InitNull ==
    /\ exports \in {StrongSymbols, AllSymbols}
    /\ manifest_plugins = ZeroRegistry
    /\ manifest_plugin_count = 0
    /\ descriptors = [d \in DescSlots |-> ZeroDescriptor]
    /\ go_instances = [k \in Slots |-> "None"]
    /\ plugin_data = [k \in Slots |->
            go_plugin_data_t(IF k = 1 THEN "live" ELSE "none", 0, 0, 0, ZeroFlags)]
    /\ \E data \in {0, 1} :
            plugins = [k \in Slots |->
                IF k = 1 THEN [alloc |-> "live", desc |-> 0, plugin_data |-> data]
                ELSE [alloc |-> "none", desc |-> 0, plugin_data |-> 0]]
    /\ created_flags = [k \in Slots |-> ZeroFlags]
    /\ last = Call("none", 0, "", "", 0, <<>>)
    /\ crashed = FALSE
    /\ audio_thread = IdleThread
    /\ entry_layer = NoCopies
    /\ presets = NoPresets
    /\ converters = NoConverters

\* An instance is created only while the module holds none.
NextNull ==
    \/ FirstInit /\ ClapgoInit(TheDoc, NoFile, TRUE)
    \/ \E ctorOK \in BOOLEAN :
            (\A k \in Slots : go_instances[k] = "None")
            /\ ClapgoCreatePlugin("com.example.gain", AllocOK, ctorOK, TRUE, TRUE)
    \/ LifecycleCallsOn(HostPlugins)
    \/ \E p \in HostPlugins : PluginDestroy(p)
    \/ \E p \in HostPlugins, fn \in DOMAIN Forwarders : ExtensionForward(p, fn)

SpecNull == InitNull /\ [][NextNull]_vars

(***************************************************************************)
(* Properties.                                                             *)
(***************************************************************************)
GetExtensionCall == last.op = "clapgo_plugin_get_extension"

\* The lifecycle state the module holds for plugin p.
StateOf(p) == go_instances[GoOf(p)]

\* C1: for every created instance and every optional extension, the
\* instance's supports_* flag is true if and only if the module defines
\* every entry point of that extension's symbol group; a partly defined
\* group never yields a true flag.
C1_FlagIffWholeGroup ==
    \A p \in LivePlugins, f \in FlagNames :
        DataOf(p)[f] <=> (SymbolGroup[f] \subseteq exports)

\* C2: for every live instance and every fixed extension id, the
\* audio-ports-config-info id included, when the instance's capability flag
\* for the id is false get_extension returns NULL, whatever entry points
\* the module exports, and calls no module entry point.
C2_FalseFlagGivesNull ==
    (/\ GetExtensionCall
     /\ last.arg \in GatedIds
     /\ last.plugin \in LivePlugins
     /\ ~DataOf(last.plugin)[GatedExtensions[last.arg].flag])
    => (last.result = NULL /\ last.calls = <<>>)

\* A config-info query answered NULL from the false flag although the
\* module defines the entry point behind that table.
C2_Witness ==
    /\ GetExtensionCall
    /\ last.arg = "CLAP_EXT_AUDIO_PORTS_CONFIG_INFO"
    /\ last.plugin \in LivePlugins
    /\ ~DataOf(last.plugin).supports_audio_ports_config
    /\ "ClapGo_PluginAudioPortsConfigGetInfo" \in exports
    /\ last.result = NULL
    /\ last.calls = <<>>

\* C5: for every created instance get_extension(audio-ports) returns the
\* bridge's built-in table whatever the capability flags are, without a
\* module call; its count is 1 for input and for output; its get succeeds
\* exactly when index is 0 and info is non-null, and then reports a main
\* stereo port of 2 channels; every other id is answered from a capability
\* flag or by the module.
C5_AudioPortsBuiltIn ==
    /\ (GetExtensionCall /\ last.arg = "CLAP_EXT_AUDIO_PORTS")
            => (last.result = "s_audio_ports_extension" /\ last.calls = <<>>)
    /\ (GetExtensionCall /\ last.arg # "CLAP_EXT_AUDIO_PORTS"
                         /\ last.result # NULL /\ last.plugin \in LivePlugins)
            => \/ /\ last.arg \in GatedIds
                  /\ DataOf(last.plugin)[GatedExtensions[last.arg].flag]
               \/ last.calls = <<"ClapGo_PluginGetExtension">>
    /\ last.op = "clapgo_audio_ports_count"
            => (last.ptr = 1 /\ last.calls = <<>>)
    /\ last.op = "clapgo_audio_ports_info"
            => /\ last.calls = <<>>
               /\ last.result = "true" <=> (last.ptr = 0 /\ last.has_info)
               /\ last.result = "true"
                    => /\ last.info.channel_count = 2
                       /\ last.info.flags = "CLAP_AUDIO_PORT_IS_MAIN"
                       /\ last.info.port_type = "CLAP_PORT_STEREO"

\* The output port read from an instance none of whose weak capability
\* flags is set.
C5_Witness ==
    /\ last.op = "clapgo_audio_ports_info"
    /\ last.arg = "false"
    /\ last.result = "true"
    /\ last.info.channel_count = 2
    /\ last.plugin \in LivePlugins
    /\ \A f \in WeakFlagNames : ~DataOf(last.plugin)[f]

\* What the dispatcher answers for a fixed id from a set of flags.
AnswerFrom(flags, id) ==
    IF id = "CLAP_EXT_AUDIO_PORTS" THEN "s_audio_ports_extension"
    ELSE IF flags[GatedExtensions[id].flag] THEN GatedExtensions[id].table
    ELSE NULL

\* C3: for every instance and every fixed extension id, every get_extension
\* call between creation and destroy returns the same result, the one the
\* flags written at creation determine, under any interleaving of lifecycle
\* calls, extension calls and creation or destruction of other instances;
\* no operation after creation changes a capability flag.
C3_AnswersFixedAtCreation ==
    /\ \A p \in LivePlugins : FlagsOf(DataOf(p)) = created_flags[p]
    /\ (GetExtensionCall /\ last.arg \in FixedIds /\ last.plugin \in LivePlugins)
            => last.result = AnswerFrom(created_flags[last.plugin], last.arg)

\* A table handed out to an instance that is processing, after another
\* instance was created and destroyed.
C3_Witness ==
    /\ GetExtensionCall
    /\ last.arg = "CLAP_EXT_NOTE_PORTS"
    /\ last.result = "s_note_ports_extension"
    /\ last.plugin \in LivePlugins
    /\ StateOf(last.plugin) = "Processing"
    /\ \E q \in Slots : q # last.plugin /\ plugins[q].alloc = "freed"

\* C4: for an instance of a module that provides only the mandatory entry
\* points and the parameter entry points, get_extension(params) returns a
\* table, get_extension(state) returns NULL and get_extension(audio-ports)
\* returns the built-in table.
C4_ParamsOnlyModule ==
    (exports = (MandatorySymbols \cup SymbolGroup.supports_params) /\ GetExtensionCall)
    => /\ last.arg = "CLAP_EXT_PARAMS" => last.result = "s_params_extension"
       /\ last.arg = "CLAP_EXT_STATE" => last.result = NULL
       /\ last.arg = "CLAP_EXT_AUDIO_PORTS" => last.result = "s_audio_ports_extension"

LifecycleEdges ==
    {<<"Created", "Initialized">>, <<"Initialized", "Activated">>,
     <<"Activated", "Processing">>, <<"Processing", "Activated">>,
     <<"Activated", "Initialized">>}

RequiredOf(manifest) ==
    {manifest.id, manifest.name, manifest.vendor, manifest.version,
     manifest.go_shared_library}

\* C8: for every manifest document in which id, name, vendor, version or
\* build.goSharedLibrary is missing or empty, manifest_load_from_file returns
\* false and clapgo_find_manifests leaves the count at 0, at either search
\* location; the registry never counts an entry with an empty required
\* field, and with the count at 0 neither a descriptor nor an instance is
\* handed out.
C8_InvalidManifestRejected ==
    /\ last.op = "none" =>      \* about the documents alone: stated once
        \A doc \in Docs :
            BadDoc(doc) => /\ ~manifest_load_from_file(doc).ret
                           /\ clapgo_find_manifests(doc, NoFile, TRUE).count = 0
                           /\ clapgo_find_manifests(NoFile, doc, TRUE).count = 0
    /\ \A i \in 0..(manifest_plugin_count - 1) :
        "" \notin RequiredOf(manifest_plugins[i].manifest)
    /\ (last.op = "clapgo_init" /\ last.arg # "none"
            /\ "" \in RequiredOf(manifest_plugins[0].manifest))
            => (last.result = "false" /\ manifest_plugin_count = 0)
    /\ (manifest_plugin_count = 0
            /\ last.op \in {"clapgo_get_plugin_descriptor", "clapgo_create_plugin"})
            => (last.result = NULL /\ last.ptr = 0)

\* The host asks for the plugin of a manifest that lacks its vendor and
\* gets NULL.
C8_Witness ==
    /\ last.op = "clapgo_create_plugin"
    /\ last.arg = "com.example.gain"
    /\ last.result = NULL
    /\ manifest_plugin_count = 0
    /\ manifest_plugins[0].manifest.id = "com.example.gain"
    /\ manifest_plugins[0].manifest.vendor = ""
    /\ LivePlugins = {}

\* C9: if any mandatory module entry point is absent, the registry entry is
\* never marked loaded and clapgo_create_plugin returns NULL for the plugin
\* id on every call.
C9_MissingMandatoryNeverLoaded ==
    ~(MandatorySymbols \subseteq exports)
    => /\ \A i \in DOMAIN manifest_plugins : ~manifest_plugins[i].loaded
       /\ last.op = "clapgo_create_plugin" => last.result = NULL

\* C10: when the module's constructor returns NULL (it was called and no
\* module instance came to be), clapgo_create_plugin returns NULL and no
\* instance record or clap_plugin structure is allocated.
C10_ConstructorNull ==
    [][(/\ last'.op = "clapgo_create_plugin"
        /\ Len(last'.calls) > 0
        /\ last'.calls[1] = "ClapGo_CreatePlugin"
        /\ go_instances' = go_instances)
       => /\ last'.result = NULL
          /\ plugin_data' = plugin_data
          /\ plugins' = plugins]_vars

\* A refused creation after which the heap holds no record and no plugin.
C10_Witness ==
    /\ last.op = "clapgo_create_plugin"
    /\ last.arg = "com.example.gain"
    /\ last.calls = <<"ClapGo_CreatePlugin">>
    /\ last.result = NULL
    /\ \A k \in Slots : plugin_data[k].alloc = "none" /\ plugins[k].alloc = "none"

\* C11: two live instances created for the same plugin id share the registry
\* entry and its descriptor pointer, a later creation neither loads the entry
\* again nor touches the descriptor heap, each instance has a record of its
\* own, and destroying one leaves the other's module pointer, descriptor
\* pointer and capability flags as they were.
C11_InstancesShareDescriptor ==
    [][/\ \A p \in LivePlugins' :
            /\ DataOf(p)'.descriptor = manifest_plugins'[DataOf(p)'.manifest_index].descriptor
            /\ plugins'[p].desc = DataOf(p)'.descriptor
            /\ \A q \in LivePlugins' \ {p} :
                    /\ plugins'[q].plugin_data # plugins'[p].plugin_data
                    /\ DataOf(q)'.manifest_index = DataOf(p)'.manifest_index
                       => plugins'[q].desc = plugins'[p].desc
       /\ (last'.op = "clapgo_create_plugin" /\ LivePlugins # {}
              /\ last'.result = "plugin")
          => /\ descriptors' = descriptors
             /\ manifest_plugins' = manifest_plugins
       /\ last'.op = "clapgo_plugin_destroy"
          => \A q \in LivePlugins \ {last'.plugin} :
                /\ q \in LivePlugins'
                /\ plugins'[q] = plugins[q]
                /\ DataOf(q)' = DataOf(q)]_vars

\* One of two instances of the same id was destroyed and the other lives on
\* with the shared descriptor.
C11_Witness ==
    /\ last.op = "clapgo_plugin_destroy"
    /\ last.calls = <<"ClapGo_PluginDestroy", "free data", "free plugin">>
    /\ plugins[last.plugin].alloc = "freed"
    /\ \E q \in LivePlugins :
          /\ plugins[q].desc = plugins[last.plugin].desc
          /\ plugins[q].desc # 0
          /\ descriptors[plugins[q].desc].alloc = "live"
          /\ DataOf(q).go_instance # 0
          /\ FlagsOf(DataOf(q)) = ExtensionFlags(exports)

\* Every heap pointer a descriptor holds.
Blocks(x) ==
    {x.alloc, x.features} \cup {x.str[f] : f \in StringFields}
    \cup {x.tags[i].alloc : i \in DOMAIN x.tags}

\* C12: a descriptor synthesized by manifest_to_descriptor and torn down by
\* clapgo_deinit has the descriptor, its eight strings, each feature string
\* and the feature array freed exactly once; until then none of them is
\* freed; and tearing down a partly synthesized descriptor frees nothing
\* twice and nothing that did not come from the allocator.
C12_DescriptorFreedOnce ==
    \A d \in DescSlots :
        LET x == descriptors[d]
        IN /\ Blocks(x) \cap {"double", "wild"} = {}
           /\ x.alloc = "live" => Blocks(x) \subseteq {"null", "live"}
           /\ (x.alloc = "freed" /\ "null" \notin Blocks(x)) => Blocks(x) = {"freed"}

\* clapgo_deinit tore down a completely synthesized descriptor that carried
\* the manifest's own feature tags.
C12_Witness ==
    /\ last.op = "clapgo_deinit"
    /\ \E d \in DescSlots :
          /\ Blocks(descriptors[d]) = {"freed"}
          /\ Len(descriptors[d].tags) = MaxFeatures
          /\ descriptors[d].tags[1].name = "instrument"

\* C13: when an allocation fails partway through descriptor synthesis the
\* synthesizer releases what it allocated and returns NULL; no descriptor
\* with a missing string, a missing feature array or a missing feature
\* string exists on the heap, is stored in the registry or is returned to
\* the host.
C13_NoPartialDescriptor ==
    /\ \A d \in DescSlots :
          descriptors[d].alloc # "none" => "null" \notin Blocks(descriptors[d])
    /\ (last.op = "clapgo_get_plugin_descriptor" /\ last.ptr # 0)
          => "null" \notin Blocks(descriptors[last.ptr])

\* C14: every descriptor the registry holds has a feature array whose first
\* entry is a feature string and whose entries up to the terminator are the
\* manifest's feature tags, or the default tags (audio-effect, stereo, mono)
\* when the manifest declares none.
C14_FeatureListNeverEmpty ==
    \A i \in 0..(manifest_plugin_count - 1) :
        manifest_plugins[i].descriptor # 0
        => LET x == descriptors[manifest_plugins[i].descriptor]
               declared == manifest_plugins[i].manifest.features
           IN /\ x.features # "null"
              /\ LeadingFeatures(x.tags) > 0
              /\ [j \in 1..LeadingFeatures(x.tags) |-> x.tags[j].name]
                    = IF Len(declared) = 0 THEN DefaultFeatures ELSE declared

\* C15: clapgo_find_manifests probes the plugin's own directory first and
\* the installed directory under HOME second, the second only when the first
\* is not readable and HOME is set, and loads exactly the first readable
\* path: a readable manifest next to the plugin is the one used whatever
\* the installed location holds.
C15_LocalManifestFirst ==
    last.op = "clapgo_find_manifests"
    => LET used == IF last.local.readable THEN last.local ELSE last.installed
           loadr == manifest_load_from_file(used)
       IN /\ last.calls[1] = "local"
          /\ Len(last.calls) = IF ~last.local.readable /\ last.home THEN 2 ELSE 1
          /\ Len(last.calls) = 2 => last.calls[2] = "installed"
          /\ last.local.readable => last.arg = "local"
          /\ (~last.local.readable /\ last.home /\ last.installed.readable)
                => last.arg = "installed"
          /\ (~last.local.readable /\ ~(last.home /\ last.installed.readable))
                => /\ last.arg = "none"
                   /\ manifest_plugin_count = 0
                   /\ manifest_plugins = ZeroRegistry
          /\ last.arg # "none"
                => /\ manifest_plugins[0].manifest = loadr.manifest
                   /\ manifest_plugin_count = IF loadr.ret THEN 1 ELSE 0
                   /\ last.ptr = manifest_plugin_count

\* Both locations held a readable manifest and the one next to the plugin
\* was loaded.
C15_Witness ==
    /\ last.op = "clapgo_find_manifests"
    /\ last.local.readable /\ last.installed.readable /\ last.home
    /\ last.installed.id = "com.example.synth"
    /\ last.arg = "local"
    /\ last.calls = <<"local">>
    /\ manifest_plugin_count = 1
    /\ manifest_plugins[0].manifest.id = "com.example.gain"

\* C16: when no manifest is found, or the one found fails to load,
\* clapgo_init returns false and leaves the count at 0; and while the count
\* is 0 clapgo_get_plugin_count returns 0, clapgo_get_plugin_descriptor
\* returns NULL for every index and clapgo_create_plugin returns NULL for
\* every plugin id and creates nothing.
C16_NoManifestNoPlugin ==
    /\ last.op = "clapgo_init"
          => /\ (last.arg = "none" \/ "" \in RequiredOf(manifest_plugins[0].manifest))
                    => last.result = "false"
             /\ last.result = "false" => manifest_plugin_count = 0
    /\ manifest_plugin_count = 0
          => /\ last.op = "clapgo_get_plugin_count" => last.ptr = 0
             /\ last.op = "clapgo_get_plugin_descriptor" => last.result = NULL
             /\ last.op = "clapgo_create_plugin"
                    => last.result = NULL /\ last.calls = <<>>

\* After a search that found a manifest without a name, the host asks for
\* the plugin count and gets 0.
C16_Witness ==
    /\ last.op = "clapgo_get_plugin_count"
    /\ last.ptr = 0
    /\ manifest_plugins[0].manifest.id = "com.example.gain"
    /\ manifest_plugins[0].manifest.name = ""

C18_DescriptorSynthesizedOnce ==
    [][/\ Cardinality({d \in DescSlots : descriptors'[d].alloc # "none"}) <= 1
       /\ (/\ manifest_plugins[0].loaded
           /\ manifest_plugins[0].descriptor # 0
           /\ last'.op \in {"clapgo_load_manifest_plugin",
                            "clapgo_get_plugin_descriptor", "clapgo_create_plugin"})
          => /\ descriptors' = descriptors
             /\ manifest_plugins' = manifest_plugins
             /\ last'.op = "clapgo_load_manifest_plugin" => last'.result = "true"
             /\ last'.op = "clapgo_get_plugin_descriptor"
                    => last'.ptr = manifest_plugins[0].descriptor
             /\ (last'.op = "clapgo_create_plugin" /\ last'.result = "plugin")
                    => plugins'[last'.plugin].desc = manifest_plugins[0].descriptor]_vars

\* clapgo_load_manifest_plugin returned true for an entry whose descriptor a
\* live instance already uses, and the heap holds that one descriptor.
C18_Witness ==
    /\ last.op = "clapgo_load_manifest_plugin"
    /\ last.result = "true"
    /\ manifest_plugins[0].loaded
    /\ \E p \in LivePlugins : plugins[p].desc = manifest_plugins[0].descriptor
    /\ Cardinality({d \in DescSlots : descriptors[d].alloc = "live"}) = 1

\* The calls of the lifecycle forwarders and what each returns by itself.
LifecycleNeutral ==
    [clapgo_plugin_init |-> "false",
     clapgo_plugin_activate |-> "false",
     clapgo_plugin_deactivate |-> "",
     clapgo_plugin_start_processing |-> "false",
     clapgo_plugin_stop_processing |-> "",
     clapgo_plugin_reset |-> "",
     clapgo_plugin_process |-> "CLAP_PROCESS_ERROR",
     clapgo_plugin_destroy |-> ""]

\* C19: a lifecycle or extension forwarding function called with a NULL
\* plugin, with a plugin whose plugin_data is NULL or with a record whose
\* module instance pointer is NULL returns its neutral value (false, 0,
\* CLAP_PROCESS_ERROR, CLAP_INVALID_ID, or nothing) and calls no module
\* entry point.
C19_NullArgumentsShortCircuit ==
    (/\ last.op \in DOMAIN LifecycleNeutral \cup DOMAIN Forwarders
     /\ \/ last.plugin = 0
        \/ plugins[last.plugin].plugin_data = 0
        \/ DataOf(last.plugin).go_instance = 0)
    => /\ \A i \in 1..Len(last.calls) : last.calls[i] \notin AllSymbols
       /\ last.result \in {"false", "0", "", "CLAP_PROCESS_ERROR", "CLAP_INVALID_ID"}
       /\ last.result = IF last.op \in DOMAIN LifecycleNeutral
                        THEN LifecycleNeutral[last.op]
                        ELSE Forwarders[last.op].neutral

\* clapgo_audio_ports_config_info_current_config answered CLAP_INVALID_ID
\* for a record without module instance while the module defines the entry
\* point and a created instance is live.
C19_Witness ==
    /\ last.op = "clapgo_audio_ports_config_info_current_config"
    /\ last.plugin # 0
    /\ plugins[last.plugin].plugin_data # 0
    /\ DataOf(last.plugin).go_instance = 0
    /\ last.result = "CLAP_INVALID_ID"
    /\ last.calls = <<>>
    /\ "ClapGo_PluginAudioPortsConfigCurrentConfig" \in exports
    /\ \E q \in LivePlugins : DataOf(q).go_instance # 0

\* C20: clapgo_plugin_destroy, given a plugin with a record, calls the
\* module's destructor exactly once and first when the record's module
\* pointer is not NULL and not at all when it is NULL, and then frees the
\* record and the clap_plugin_t once each.
C20_DestroyOrder ==
    [][(/\ last'.op = "clapgo_plugin_destroy"
        /\ last'.plugin # 0
        /\ last'.result # "CRASH"
        /\ plugins[last'.plugin].plugin_data # 0)
       => LET p == last'.plugin
              k == plugins[p].plugin_data
              g == plugin_data[k].go_instance
          IN /\ g # 0 => /\ last'.calls = <<"ClapGo_PluginDestroy", "free data",
                                           "free plugin">>
                         /\ go_instances[g] \in LiveStates
                         /\ go_instances'[g] = "Destroyed"
             /\ g = 0 => /\ last'.calls = <<"free data", "free plugin">>
                         /\ go_instances' = go_instances
             /\ plugin_data[k].alloc = "live" /\ plugin_data'[k].alloc = "freed"
             /\ plugins[p].alloc = "live" /\ plugins'[p].alloc = "freed"
             /\ \A q \in Slots \ {p} : plugins'[q] = plugins[q]
             /\ \A j \in Slots \ {k} : plugin_data'[j] = plugin_data[j]]_vars

\* A created instance was destroyed through the module's destructor after
\* a record without module instance had been destroyed without it.
C20_Witness ==
    /\ last.op = "clapgo_plugin_destroy"
    /\ last.calls = <<"ClapGo_PluginDestroy", "free data", "free plugin">>
    /\ go_instances[DataOf(last.plugin).go_instance] = "Destroyed"
    /\ \E q \in Slots \ {last.plugin} :
          /\ plugins[q].alloc = "freed"
          /\ plugins[q].plugin_data # 0
          /\ DataOf(q).go_instance = 0
          /\ DataOf(q).alloc = "freed"

(***************************************************************************)
(* SpecStale: instances through their lifecycle, and a host that goes on   *)
(* calling with a clap_plugin_t after clapgo_plugin_destroy freed it.      *)
(***************************************************************************)
\* bridge.c:437-531 entered with a clap_plugin_t that bridge.c:463 freed.
\* The reads of plugin->plugin_data and data->go_instance are reads of freed
\* memory.  memory is what they meet: "intact", the blocks still hold what
\* they held (the module is then called with the pointer of its destroyed
\* instance, and clapgo_plugin_destroy frees both blocks again); "zeroed",
\* plugin_data reads as NULL; "unmapped", the read faults.
UseAfterDestroy(p, op, sym, neutral, memory) ==
    /\ ~crashed
    /\ p \in Slots /\ plugins[p].alloc = "freed"
    /\ UNCHANGED <<exports, entry_layer, presets, converters, audio_thread, created_flags, go_instances>>
    /\ UNCHANGED Registry
    /\ CASE memory = "unmapped" ->
                /\ crashed' = TRUE
                /\ last' = Call(op, p, "", "CRASH", 0, <<>>)
                /\ UNCHANGED <<plugin_data, plugins>>
         [] memory = "zeroed" ->
                /\ last' = Call(op, p, "", neutral, 0, <<>>)
                /\ UNCHANGED <<crashed, plugin_data, plugins>>
         [] memory = "intact" ->
                LET k == plugins[p].plugin_data
                    called == IF k # 0 /\ plugin_data[k].go_instance # 0
                              THEN <<sym>> ELSE <<>>
                IN /\ UNCHANGED crashed
                   /\ IF op = "clapgo_plugin_destroy" /\ k # 0
                      THEN /\ plugin_data' = [plugin_data EXCEPT ![k].alloc = free(@)]
                           /\ plugins' = [plugins EXCEPT ![p].alloc = free(@)]
                           /\ last' = Call(op, p, "", neutral, 0,
                                           called \o <<"free data", "free plugin">>)
                      ELSE /\ last' = Call(op, p, "", neutral, 0, called)
                           /\ UNCHANGED <<plugin_data, plugins>>

NextStale ==
    \/ FirstInit /\ ClapgoInit(TheDoc, NoFile, TRUE)
    \/ ClapgoCreatePlugin("com.example.gain", AllocOK, TRUE, TRUE, TRUE)
    \/ LifecycleCalls
    \/ \E p \in Slots : PluginDestroy(p)
    \/ \E p \in Slots, op \in DOMAIN LifecycleNeutral,
          memory \in {"intact", "zeroed", "unmapped"} :
            UseAfterDestroy(p, op,
                CASE op = "clapgo_plugin_init" -> "ClapGo_PluginInit"
                  [] op = "clapgo_plugin_activate" -> "ClapGo_PluginActivate"
                  [] op = "clapgo_plugin_deactivate" -> "ClapGo_PluginDeactivate"
                  [] op = "clapgo_plugin_start_processing" -> "ClapGo_PluginStartProcessing"
                  [] op = "clapgo_plugin_stop_processing" -> "ClapGo_PluginStopProcessing"
                  [] op = "clapgo_plugin_reset" -> "ClapGo_PluginReset"
                  [] op = "clapgo_plugin_process" -> "ClapGo_PluginProcess"
                  [] op = "clapgo_plugin_destroy" -> "ClapGo_PluginDestroy",
                LifecycleNeutral[op], memory)

SpecStale == InitRegistry /\ [][NextStale]_vars

\* C21: reset is accepted in every non-destroyed lifecycle state and leaves
\* the instance's lifecycle state, module pointer and capability flags
\* unchanged; destroy is accepted from every lifecycle state and is
\* terminal: after it no operation on that instance is accepted, that is,
\* a later call with the handle reaches no module entry point, frees
\* nothing, does not crash and changes nothing.
C21_ResetAndDestroy ==
    [][/\ \A p \in LivePlugins :
            (last'.plugin = p /\ last' # last /\ Forwards(p)
             /\ StateOf(p) \in LiveStates) =>
                /\ last'.op = "clapgo_plugin_reset" =>
                    /\ last'.calls = <<"ClapGo_PluginReset">>
                    /\ ~crashed'
                    /\ go_instances' = go_instances
                    /\ plugin_data' = plugin_data
                    /\ plugins' = plugins
                /\ last'.op = "clapgo_plugin_destroy" =>
                    /\ last'.calls[1] = "ClapGo_PluginDestroy"
                    /\ go_instances'[GoOf(p)] = "Destroyed"
                    /\ plugins'[p].alloc = "freed"
       /\ \A p \in Slots :
            (plugins[p].alloc = "freed" /\ last'.plugin = p /\ last' # last) =>
                /\ last'.calls = <<>>
                /\ ~crashed'
                /\ go_instances' = go_instances
                /\ plugin_data' = plugin_data
                /\ plugins' = plugins]_vars

(***************************************************************************)
(* SpecForward: one instance of a module that defines every entry point;   *)
(* the extension forwarders with the host's arguments and the module's     *)
(* results.                                                                *)
(***************************************************************************)
\* An unsigned 64-bit value as its two 32-bit halves; a 32-bit value has
\* hi = 0.  A clap_context_menu_target_t pointer is `null` or points to a
\* kind and an id.  What the module returns from entry point fn: nothing,
\* a bool, or a number of the width its declaration has (bridge.c:50-113:
\* uint32_t, but uint64_t for ClapGo_PluginAudioPortsConfigCurrentConfig,
\* bridge.c:70).
ModuleResults(fn) ==
    LET neutral == Forwarders[fn].neutral
        zero == [hi |-> 0, lo |-> 0]
    IN IF neutral = "" THEN {[text |-> "", number |-> zero]}
       ELSE IF neutral = "false"
       THEN {[text |-> t, number |-> zero] : t \in {"true", "false"}}
       ELSE {[text |-> "", number |-> [hi |-> h, lo |-> l]] :
                h \in IF fn = "clapgo_audio_ports_config_info_current_config"
                      THEN {0, 1} ELSE {0},
                l \in {0, 5}}

\* The arguments the forwarder hands to the module.  bridge.c:1375-1379 and
\* 1394-1398: the context-menu functions pass the target's kind and id, and
\* the global kind with id 0 for a NULL target; every other forwarder passes
\* its arguments on as they are.
ModuleArguments(fn, args) ==
    IF fn \in {"clapgo_context_menu_populate", "clapgo_context_menu_perform"}
    THEN [target_kind |-> IF args.target.null
                          THEN "CLAP_CONTEXT_MENU_TARGET_KIND_GLOBAL"
                          ELSE args.target.kind,
          target_id |-> IF args.target.null THEN 0 ELSE args.target.id,
          rest |-> args.rest]
    ELSE args

\* The module's result as the forwarder's return type holds it: bool and
\* uint32_t results as they are, the uint64_t of bridge.c:70 converted to the
\* clap_id (uint32_t) that bridge.c:1193-1204 returns.
ForwardedResult(fn, modret) == [modret EXCEPT !.number.hi = 0]

\* bridge.c:961-1517 with the host's arguments args and the module's result
\* modret.
ExtensionForwardWith(p, fn, args, modret) ==
    /\ ~crashed /\ p \in HostPlugins
    /\ LET f == Forwarders[fn]
           neutral == [text |-> IF f.neutral \in {"", "false"} THEN f.neutral ELSE "",
                       number |-> [hi |-> 0,
                                   lo |-> IF f.neutral = "CLAP_INVALID_ID" THEN -1 ELSE 0]]
       IN IF ~Forwards(p) \/ (f.checked /\ f.sym \notin exports)
          THEN /\ last' = Call(fn, p, "", neutral.text, 0, <<>>)
                          @@ [host |-> args, number |-> neutral.number]
               /\ UNCHANGED <<exports, entry_layer, presets, converters, audio_thread, crashed>>
               /\ UNCHANGED Registry
               /\ UNCHANGED Instances
          ELSE IF f.sym \notin exports
          THEN Crash(fn, p, f.sym)
          ELSE /\ last' = Call(fn, p, "", ForwardedResult(fn, modret).text, 0, <<f.sym>>)
                          @@ [host |-> args, handle |-> GoOf(p),
                              passed |-> ModuleArguments(fn, args),
                              modret |-> modret,
                              number |-> ForwardedResult(fn, modret).number]
               /\ UNCHANGED <<exports, entry_layer, presets, converters, audio_thread, crashed>>
               /\ UNCHANGED Registry
               /\ UNCHANGED Instances

NextForward ==
    \/ FirstInit /\ ClapgoInit(TheDoc, NoFile, TRUE)
    \/ FirstInstance /\ ClapgoCreatePlugin("com.example.gain", AllocOK, TRUE, TRUE, TRUE)
    \/ LifecycleCalls
    \/ \E p \in Slots : PluginDestroy(p)
    \/ \E p \in LivePlugins, fn \in DOMAIN Forwarders :
         \E modret \in ModuleResults(fn),
            args \in IF fn \in {"clapgo_context_menu_populate",
                                "clapgo_context_menu_perform"}
                     THEN {[target |-> t, rest |-> 3] :
                            t \in {[null |-> TRUE, kind |-> "", id |-> 0],
                                   [null |-> FALSE,
                                    kind |-> "CLAP_CONTEXT_MENU_TARGET_KIND_GLOBAL",
                                    id |-> 0],
                                   [null |-> FALSE,
                                    kind |-> "CLAP_CONTEXT_MENU_TARGET_KIND_PARAM",
                                    id |-> 7]}}
                     ELSE {[rest |-> 3], [rest |-> 4]} :
            ExtensionForwardWith(p, fn, args, modret)

SpecForward == InitRegistry /\ [][NextForward]_vars

\* C22: for a live instance with a supported extension and non-null
\* arguments, each forwarding function calls its module entry point exactly
\* once with the instance's module pointer and the host's arguments (for a
\* context-menu target its kind and id, a NULL target standing for the
\* global one) and returns the module's result unchanged; process likewise
\* returns the module's status.
C22_ForwardsUnchanged ==
    [][\A p \in LivePlugins :
        (last'.plugin = p /\ last' # last /\ Forwards(p)) =>
            /\ (last'.op \in DOMAIN Forwarders
                /\ Forwarders[last'.op].sym \in exports) =>
                    /\ last'.calls = <<Forwarders[last'.op].sym>>
                    /\ last'.handle = GoOf(p)
                    /\ IF "target" \in DOMAIN last'.host
                       THEN /\ last'.passed.rest = last'.host.rest
                            /\ ~last'.host.target.null =>
                                /\ last'.passed.target_kind = last'.host.target.kind
                                /\ last'.passed.target_id = last'.host.target.id
                       ELSE last'.passed = last'.host
                    /\ last'.result = last'.modret.text
                    /\ last'.number = last'.modret.number
                    /\ UNCHANGED <<go_instances, plugin_data, plugins>>
            /\ last'.op = "clapgo_plugin_process" =>
                    /\ last'.calls = <<"ClapGo_PluginProcess">>
                    /\ last'.result \in ProcessStatuses
                    /\ StateOf(p) # "Processing" => last'.result = "CLAP_PROCESS_ERROR"]_vars

(***************************************************************************)
(* SpecThreads: one instance; the host's main thread makes lifecycle,      *)
(* extension and destroy calls while its audio thread is inside            *)
(* clapgo_plugin_process, between the reads of the guard and the call of   *)
(* the module.                                                             *)
(***************************************************************************)
\* A process call that clears the record's module pointer once it has read it.
AudioProcessEnterClearingPointer(p) ==
    /\ ~crashed /\ audio_thread.pc = "idle" /\ p \in LivePlugins
    /\ Forwards(p)
    /\ audio_thread' =
            [pc |-> "loaded", plugin |-> p, go_instance |-> GoOf(p),
             entered_in |-> go_instances[GoOf(p)], result |-> ""]
    /\ plugin_data' = [plugin_data EXCEPT ![plugins[p].plugin_data].go_instance = 0]
    /\ UNCHANGED <<exports, entry_layer, presets, converters, crashed, last, go_instances, plugins, created_flags>>
    /\ UNCHANGED Registry

\* bridge.c:523-527 on the audio thread: the reads of plugin->plugin_data
\* and data->go_instance.  A failed guard returns CLAP_PROCESS_ERROR.
AudioProcessEnter(p) ==
    /\ ~crashed /\ audio_thread.pc = "idle" /\ p \in LivePlugins
    /\ audio_thread' =
            IF Forwards(p)
            THEN [pc |-> "loaded", plugin |-> p, go_instance |-> GoOf(p),
                  entered_in |-> go_instances[GoOf(p)], result |-> ""]
            ELSE [pc |-> "idle", plugin |-> p, go_instance |-> 0,
                  entered_in |-> "", result |-> "CLAP_PROCESS_ERROR"]
    /\ UNCHANGED <<exports, entry_layer, presets, converters, crashed, last>>
    /\ UNCHANGED Registry
    /\ UNCHANGED Instances

\* bridge.c:530 on the audio thread: the module is called with the pointer
\* that was read, and its status returned.
AudioProcessCall(status) ==
    /\ ~crashed /\ audio_thread.pc = "loaded"
    /\ IF "ClapGo_PluginProcess" \notin exports
       THEN /\ crashed' = TRUE
            /\ audio_thread' = [audio_thread EXCEPT !.pc = "idle", !.result = "CRASH"]
       ELSE /\ UNCHANGED crashed
            /\ audio_thread' =
                [audio_thread EXCEPT
                    !.pc = "idle",
                    !.result = clapgo_plugin_process(
                        ClapGo_PluginProcess(go_instances[audio_thread.go_instance],
                                             status))]
    /\ UNCHANGED <<exports, entry_layer, presets, converters, last>>
    /\ UNCHANGED Registry
    /\ UNCHANGED Instances

\* The host destroys an instance only while no process call is inside it.
NextThreads ==
    \/ FirstInit /\ ClapgoInit(TheDoc, NoFile, TRUE)
    \/ \E ctorOK, pluginOK \in BOOLEAN :
            FirstInstance
            /\ ClapgoCreatePlugin("com.example.gain", AllocOK, ctorOK, TRUE, pluginOK)
    \/ LifecycleCalls
    \/ \E p \in Slots, fn \in {"clapgo_params_flush", "clapgo_latency_get"} :
            ExtensionForward(p, fn)
    \/ ExtensionCalls({"CLAP_EXT_PARAMS"})
    \/ \E p \in Slots : audio_thread.pc = "idle" /\ PluginDestroy(p)
    \/ \E p \in Slots : AudioProcessEnter(p)
    \/ \E status \in ProcessStatuses : AudioProcessCall(status)

SpecThreads == InitRegistry /\ [][NextThreads]_vars

\* C23: with process calls on the audio thread interleaved with main-thread
\* lifecycle and extension calls on the same instance, the record's module
\* pointer is written once, in creation, before the handle is returned to
\* the host; afterwards no operation but destroy writes any field of the
\* record; so every read of the module pointer by a process call in flight
\* observes the value creation wrote.
C23_ModulePointerWrittenOnce ==
    [][/\ \A k \in Slots :
            /\ plugin_data[k].alloc = "live" =>
                \/ plugin_data'[k] = plugin_data[k]
                \/ /\ last'.op = "clapgo_plugin_destroy"
                   /\ plugins[last'.plugin].plugin_data = k
                   /\ plugin_data'[k] = [plugin_data[k] EXCEPT !.alloc = "freed"]
            /\ (plugin_data[k].alloc = "none" /\ plugin_data'[k].alloc = "live") =>
                /\ last'.op = "clapgo_create_plugin"
                /\ last'.result = "plugin"
                /\ plugins'[last'.ptr].plugin_data = k
                /\ \A p \in Slots : plugins[p].alloc = "none"
                /\ audio_thread.pc = "idle" /\ audio_thread' = audio_thread
       /\ audio_thread'.pc = "loaded" =>
            LET k == plugins'[audio_thread'.plugin].plugin_data
            IN /\ plugin_data'[k].alloc = "live"
               /\ audio_thread'.go_instance = plugin_data'[k].go_instance
               /\ audio_thread'.go_instance # 0]_vars

\* The audio thread read the module pointer while the instance was
\* processing and has not yet called the module; meanwhile the main thread
\* stopped processing, and the instance is Activated.
C23_Witness ==
    /\ audio_thread.pc = "loaded"
    /\ audio_thread.entered_in = "Processing"
    /\ last.op = "clapgo_plugin_stop_processing"
    /\ last.plugin = audio_thread.plugin
    /\ StateOf(audio_thread.plugin) = "Activated"
    /\ audio_thread.go_instance = GoOf(audio_thread.plugin)

(***************************************************************************)
(* SpecExtensions: manifests that differ only in their extensions array;   *)
(* the bridge initialised again between creations, so that instances made  *)
(* under different manifests live side by side.                            *)
(***************************************************************************)
\* The manifest file with each of several extensions arrays.
ExtensionDocs ==
    {[TheDoc EXCEPT !.extensions = exts] :
        exts \in {<<>>,
                  <<[id |-> "CLAP_EXT_PARAMS", supported |-> FALSE]>>,
                  <<[id |-> "CLAP_EXT_NOTE_PORTS", supported |-> TRUE]>>,
                  <<[id |-> "CLAP_EXT_NOTE_PORTS", supported |-> FALSE],
                    [id |-> "CLAP_EXT_STATE", supported |-> FALSE]>>}}

NextExtensions ==
    \/ \E doc \in ExtensionDocs : ClapgoInit(doc, NoFile, TRUE)
    \/ ClapgoCreatePlugin("com.example.gain", AllocOK, TRUE, TRUE, TRUE)
    \/ \E p \in Slots : PluginDestroy(p)
    \/ ExtensionCalls(SomeExtensionIds)

SpecExtensions == Init /\ [][NextExtensions]_vars

\* C24: an instance's capability flags, and so every get_extension result,
\* depend only on which entry points the module defines and not on the
\* manifest's extensions array: instances created under manifests that
\* differ only in that array have the same flags, and get_extension on one
\* of them answers what the flags of any of them determine.
C24_FlagsIndependentOfManifest ==
    /\ \A p, q \in LivePlugins :
            (Forwards(p) /\ Forwards(q)) => FlagsOf(DataOf(p)) = FlagsOf(DataOf(q))
    /\ (GetExtensionCall /\ last.arg \in FixedIds /\ last.plugin \in LivePlugins)
        => \A q \in LivePlugins :
                last.result = AnswerFrom(FlagsOf(DataOf(q)), last.arg)

\* Two instances live side by side, created under different loads of the
\* manifest; the second was created under the manifest that declares note
\* ports and state unsupported, and get_extension answers it with the state
\* table.
C24_Witness ==
    /\ GetExtensionCall
    /\ last.arg = "CLAP_EXT_STATE"
    /\ last.result = "s_state_extension"
    /\ last.plugin = 2
    /\ LivePlugins = {1, 2}
    /\ plugins[1].desc # plugins[2].desc
    /\ manifest_plugins[0].descriptor = plugins[2].desc
    /\ Len(manifest_plugins[0].manifest.extensions) = 2
    /\ ~manifest_plugins[0].manifest.extensions[2].supported

DescriptorContent(d) ==
    LET x == descriptors[d]
        m == manifest_plugins[0].manifest
    IN [id |-> IF x.str.id = "borrowed" THEN m.id ELSE x.id,
        tags |-> [i \in DOMAIN x.tags |->
                    IF x.tags[i].alloc = "borrowed"
                    THEN IF i <= Len(m.features) THEN m.features[i] ELSE "dangling"
                    ELSE x.tags[i].name]]

NextCopies ==
    \/ \E doc \in {TheDoc, [TheDoc EXCEPT !.features = <<>>],
                     [GoodDoc("com.example.synth") EXCEPT !.features = <<"instrument">>],
                     NoFile} :
            ClapgoInit(doc, NoFile, TRUE)
    \/ \E failing \in {AllocOK, {"id"}, {"feature1"}} :
            ClapgoGetPluginDescriptor(0, failing)
    \/ ClapgoDeinit

SpecCopies == InitRegistry /\ [][NextCopies]_vars

\* C26: every string field and every feature tag of a synthesized
\* descriptor is NULL or a copy allocated for the descriptor, holding what
\* the manifest held at synthesis; no field points into the manifest; and
\* overwriting, clearing or freeing the manifest afterwards leaves what every
\* descriptor field holds unchanged.
C26_DescriptorOwnsCopies ==
    [][\A d \in DescSlots :
        /\ descriptors'[d].alloc = "live" =>
            /\ \A f \in StringFields : descriptors'[d].str[f] \in {"live", "null"}
            /\ \A i \in DOMAIN descriptors'[d].tags :
                    descriptors'[d].tags[i].alloc \in {"live", "null"}
        /\ (descriptors[d].alloc = "none" /\ descriptors'[d].alloc = "live") =>
            LET m == manifest_plugins[0].manifest
                src == IF Len(m.features) > 0 THEN m.features ELSE DefaultFeatures
                c == DescriptorContent(d)'
            IN /\ c.id \in {m.id, NULL}
               /\ descriptors'[d].features = "live" =>
                    /\ Len(c.tags) = Len(src)
                    /\ \A i \in DOMAIN c.tags : c.tags[i] \in {src[i], NULL}
        /\ (descriptors[d].alloc = "live" /\ descriptors'[d].alloc = "live") =>
            DescriptorContent(d)' = DescriptorContent(d)]_vars

\* A descriptor synthesized from the gain manifest with two feature tags is
\* live and holds the gain id and both tags, while a later initialisation
\* has put the synth manifest with its one tag into the registry entry.
C26_Witness ==
    /\ last.op = "clapgo_init"
    /\ manifest_plugins[0].manifest.id = "com.example.synth"
    /\ \E d \in DescSlots :
        /\ descriptors[d].alloc = "live"
        /\ DescriptorContent(d) =
                [id |-> "com.example.gain", tags |-> <<"audio-effect", "stereo">>]
        /\ \A f \in StringFields : descriptors[d].str[f] = "live"

(***************************************************************************)
(* SpecGui: the extension lookup of the GUI bridges.  The gain-with-gui    *)
(* bridge declares its own go_plugin_data_t in place of plugin.h and sits  *)
(* on the dispatcher of bridge.c; the template includes plugin.h and sits  *)
(* on plugin.c, built with or without CLAPGO_GUI_SUPPORT.                  *)
(***************************************************************************)
\* examples/gain-with-gui/gui_bridge.cpp:89-106 and
\* examples/gui_bridge_template.c:34-55.  P is the plugin argument, modret
\* the answer of the module's own get-extension, has_gui the answer of
\* GoGUIHasGUI, layer the clapgo_plugin_get_extension the bridge is linked
\* with.  regular is that function's outcome: bridge.c:748-958, or
\* plugin.c:439-459, which prints plugin->desc->name and, under
\* CLAPGO_GUI_SUPPORT, calls back into this function without end.
PluginGetExtensionWithGui(P, id, modret, has_gui, layer) ==
    /\ ~crashed
    /\ LET op == "clapgo_plugin_get_extension_with_gui"
           fwd == <<"ClapGo_PluginGetExtension">>
           regular ==
               IF layer = "bridge.c"
               THEN IF ~Forwards(P) THEN [result |-> NULL, calls |-> <<>>]
                    ELSE IF id \in FixedIds
                    THEN [result |-> FixedExtension(DataOf(P), id), calls |-> <<>>]
                    ELSE IF "ClapGo_PluginGetExtension" \notin exports
                    THEN [result |-> "CRASH", calls |-> fwd]
                    ELSE [result |-> modret, calls |-> fwd]
               ELSE IF P = 0 \/ plugins[P].plugin_data = 0
                    THEN [result |-> NULL, calls |-> <<>>]
                    ELSE IF plugins[P].desc = 0 \/ layer = "plugin.c CLAPGO_GUI_SUPPORT"
                    THEN [result |-> "CRASH", calls |-> <<>>]
                    ELSE [result |-> NULL, calls |-> <<>>]
           answer ==
               IF regular.result # NULL THEN regular
               ELSE IF id # "CLAP_EXT_GUI" THEN regular
               ELSE IF P = 0 THEN [result |-> "CRASH", calls |-> regular.calls]
               ELSE IF ~Forwards(P) THEN regular
               ELSE IF ~has_gui
               THEN [result |-> NULL, calls |-> regular.calls \o <<"GoGUIHasGUI">>]
               ELSE [result |-> "clapgo_gui_extension",
                     calls |-> regular.calls \o
                        (IF layer = "bridge.c" THEN <<"GoGUIHasGUI">>
                         ELSE <<"GoGUIHasGUI", "GoSetGUIExtensionPointer">>)]
       IN /\ last' = Call(op, P, id, answer.result, 0, answer.calls)
                        @@ [layer |-> layer, regular |-> regular.result,
                            modret |-> modret, has_gui |-> has_gui]
          /\ crashed' = (answer.result = "CRASH")
    /\ UNCHANGED <<exports, entry_layer, presets, converters, audio_thread>>
    /\ UNCHANGED Registry
    /\ UNCHANGED Instances

NextGui ==
    \/ FirstInit /\ ClapgoInit(TheDoc, NoFile, TRUE)
    \/ (\A k \in Slots : go_instances[k] = "None")
       /\ ClapgoCreatePlugin("com.example.gain", AllocOK, TRUE, TRUE, TRUE)
    \/ \E p \in LivePlugins, ok \in BOOLEAN : PluginInit(p, ok)
    \/ \E p \in LivePlugins : PluginDestroy(p)
    \/ \E P \in HostPlugins, id \in {"CLAP_EXT_GUI", "CLAP_EXT_PARAMS", "com.example.custom"},
          has_gui \in BOOLEAN,
          layer \in {"bridge.c", "plugin.c", "plugin.c CLAPGO_GUI_SUPPORT"} :
            \E modret \in ModuleAnswers(id) :
                PluginGetExtensionWithGui(P, id, modret, has_gui, layer)

SpecGui == InitNull /\ [][NextGui]_vars

\* C27: clapgo_plugin_get_extension_with_gui answers the GUI table for the
\* GUI id only when the module reports GUI support for the instance,
\* answers the regular get_extension result whenever that is not NULL, and
\* on every call with the GUI id answers NULL or a table, the same on the
\* next call for the same instance when the module answers the same.
C27_GuiGatedLikeOthers ==
    [][last'.op = "clapgo_plugin_get_extension_with_gui" =>
        /\ last'.result = "clapgo_gui_extension" =>
                (last'.arg = "CLAP_EXT_GUI" /\ last'.has_gui /\ Forwards(last'.plugin))
        /\ last'.regular # NULL => last'.result = last'.regular
        /\ last'.arg = "CLAP_EXT_GUI" =>
                last'.result \in {NULL, "clapgo_gui_extension", "go_extension"}
        /\ (/\ last.op = "clapgo_plugin_get_extension_with_gui"
            /\ last.arg = "CLAP_EXT_GUI" /\ last'.arg = "CLAP_EXT_GUI"
            /\ last.plugin = last'.plugin
            /\ last.layer = last'.layer
            /\ last.has_gui = last'.has_gui /\ last.modret = last'.modret)
           => last'.result = last.result]_vars

(***************************************************************************)
(* SpecEntry: the entry point of the descriptor-copying layer (plugin.c).  *)
(* The module reports up to MaxSources plugins; a source descriptor may be *)
(* missing, lack a string field or the feature array; one allocation of    *)
(* one copy, or of one of the two arrays, may fail.  The host calls        *)
(* clapgo_init until it has made copies, and clapgo_deinit at any time.    *)
(***************************************************************************)
MaxSources == 2

\* plugin.c:490-492 with clapgo_init, plugin.c:172-218.  sources is what
\* clapgo_get_plugin_count and clapgo_get_plugin_descriptor report; the
\* allocations of `failing` fail for the two arrays and for the copy of
\* index at - 1.
clapgo_entry_init(sources, failing, at) ==
    /\ ~crashed
    /\ LET e == entry_layer
           count == Len(sources)
           made == [i \in 1..count |->
                      create_descriptor_copy(sources[i],
                                             IF i = at THEN failing ELSE AllocOK)]
           r == IF count = 0
                THEN [ret |-> FALSE, e |-> [e EXCEPT !.plugin_count = 0]]
                ELSE IF calloc("plugin_descriptors", failing) = "null"
                THEN [ret |-> FALSE,
                      e |-> [e EXCEPT !.plugin_count = count,
                                      !.plugin_descriptors = "null"]]
                ELSE IF calloc("descriptor_allocations", failing) = "null"
                THEN [ret |-> FALSE,
                      e |-> [e EXCEPT !.plugin_count = 0,
                                      !.plugin_descriptors = "null",
                                      !.descriptor_array = free("live"),
                                      !.descriptor_allocations = "null"]]
                ELSE [ret |-> TRUE,
                      e |-> [plugin_count |-> count,
                             plugin_descriptors |-> "array", descriptor_array |-> "live",
                             descriptor_allocations |-> "array", allocation_array |-> "live",
                             slots |-> [i \in 1..count |-> made[i].ret],
                             tracking |-> [i \in 1..count |-> made[i].alloc_info],
                             copies |-> [i \in 1..count |-> made[i].desc]]]
       IN /\ entry_layer' = r.e
          /\ last' = Call("clapgo_entry_init", 0, "", B2S(r.ret), count, <<>>)
    /\ UNCHANGED <<exports, audio_thread, presets, converters, crashed>>
    /\ UNCHANGED Registry
    /\ UNCHANGED Instances

\* plugin.c:494-496 with clapgo_deinit, plugin.c:221-247.
clapgo_entry_deinit ==
    /\ ~crashed
    /\ LET e == entry_layer
           held == {i \in DOMAIN e.slots : i <= e.plugin_count /\ e.slots[i] # "null"}
       IN entry_layer' =
            IF e.plugin_descriptors # "null" /\ e.descriptor_allocations # "null"
            THEN [e EXCEPT
                    !.copies = [i \in DOMAIN e.copies |->
                                  IF i \in held
                                  THEN [free_descriptor_fields(e.copies[i], e.tracking[i])
                                            EXCEPT !.alloc = free(@)]
                                  ELSE e.copies[i]],
                    !.slots = [i \in DOMAIN e.slots |->
                                  IF i \in held THEN "null" ELSE e.slots[i]],
                    !.descriptor_array = free(@), !.plugin_descriptors = "null",
                    !.allocation_array = free(@), !.descriptor_allocations = "null",
                    !.plugin_count = 0]
            ELSE [e EXCEPT !.plugin_count = 0]
    /\ last' = Call("clapgo_entry_deinit", 0, "", "", 0, <<>>)
    /\ UNCHANGED <<exports, audio_thread, presets, converters, crashed>>
    /\ UNCHANGED Registry
    /\ UNCHANGED Instances

\* plugin.c:478-482.  With plugin_descriptors NULL and a count above the
\* index the read of plugin_descriptors[index] is undefined: it faults.
clapgo_factory_get_plugin_descriptor(index) ==
    /\ ~crashed
    /\ LET e == entry_layer
           r == IF index >= e.plugin_count THEN NULL
                ELSE IF e.plugin_descriptors = "null" THEN "CRASH"
                ELSE IF e.slots[index + 1] = "null" THEN NULL
                ELSE "descriptor"
       IN /\ last' = Call("clapgo_factory_get_plugin_descriptor", 0, "", r, index, <<>>)
          /\ crashed' = (r = "CRASH")
    /\ UNCHANGED <<exports, audio_thread, entry_layer, presets, converters>>
    /\ UNCHANGED Registry
    /\ UNCHANGED Instances

\* plugin.c:484-487 with clapgo_create_plugin, plugin.c:250-305.  The copy
\* of index i holds the id "com.example.plugin<i>" when its id was copied.
\* The loop reads plugin_descriptors[i]->id of every slot up to the match
\* and hands it to strcmp: for a NULL array, a NULL slot or a NULL id that
\* is undefined, and `undefined` tells whether it faults or compares
\* unequal.  The undefined reads are recorded in calls.  The record's
\* module pointer is set to NULL (plugin.c:278).
clapgo_factory_create_plugin(plugin_id, undefined, failing) ==
    /\ ~crashed
    /\ LET e == entry_layer
           op == "clapgo_factory_create_plugin"
           noslot(i) == e.plugin_descriptors = "null" \/ e.slots[i] = "null"
           bad(i) == noslot(i) \/ e.copies[i].str.id = "null"
           hit(i) == ~bad(i) /\ plugin_id = "com.example.plugin" \o ToString(i)
           hits == {i \in 1..e.plugin_count : hit(i)}
           stop == IF hits = {} THEN e.plugin_count + 1
                   ELSE CHOOSE i \in hits : \A j \in hits : i <= j
           nulls == {i \in 1..e.plugin_count : i < stop /\ bad(i)}
           reads == (IF \E i \in nulls : noslot(i) THEN <<"id of NULL slot">> ELSE <<>>)
                    \o (IF \E i \in nulls : ~noslot(i) THEN <<"strcmp(NULL)">> ELSE <<>>)
           k == IF FreeSlots = {} THEN 0 ELSE NewSlot
       IN IF nulls # {} /\ undefined = "fault"
          THEN /\ last' = Call(op, 0, plugin_id, "CRASH", 0, reads)
               /\ crashed' = TRUE
               /\ UNCHANGED Instances
          ELSE /\ UNCHANGED <<crashed, go_instances, created_flags>>
               /\ IF hits = {}
                  THEN /\ last' = Call(op, 0, plugin_id, NULL, 0, reads)
                       /\ UNCHANGED <<plugin_data, plugins>>
                  ELSE IF calloc("data", failing) = "null" \/ k = 0
                  THEN /\ last' = Call(op, 0, plugin_id, NULL, stop, reads)
                       /\ UNCHANGED <<plugin_data, plugins>>
                  ELSE IF calloc("plugin", failing) = "null"
                  THEN /\ plugin_data' = [plugin_data EXCEPT ![k] =
                                go_plugin_data_t(free("live"), 0, stop, 0, ZeroFlags)]
                       /\ last' = Call(op, 0, plugin_id, NULL, stop, reads)
                       /\ UNCHANGED plugins
                  ELSE /\ plugin_data' = [plugin_data EXCEPT ![k] =
                                go_plugin_data_t("live", 0, stop, 0, ZeroFlags)]
                       /\ plugins' = [plugins EXCEPT ![k] =
                                [alloc |-> "live", desc |-> stop, plugin_data |-> k]]
                       /\ last' = Call(op, k, plugin_id, "plugin", stop, reads)
    /\ UNCHANGED <<exports, audio_thread, entry_layer, presets, converters>>
    /\ UNCHANGED Registry

NextEntry ==
    \/ \E n \in 0..MaxSources :
        \E sources \in [1..n ->
                {[present |-> TRUE, null_fields |-> {}, features |-> 2],
                 [present |-> TRUE, null_fields |-> {"url"}, features |-> -1],
                 [present |-> TRUE, null_fields |-> {}, features |-> 0],
                 [present |-> FALSE, null_fields |-> {}, features |-> -1]}],
           failing \in {AllocOK, {"plugin_descriptors"}, {"descriptor_allocations"},
                        {"descriptor"}, {"id"}, {"features"}, {"feature1"}, {"feature2"}},
           at \in 1..MaxSources :
            entry_layer.copies = <<>>
            /\ clapgo_entry_init(sources, failing, at)
    \/ clapgo_entry_deinit
    \/ \E index \in 0..MaxSources : clapgo_factory_get_plugin_descriptor(index)
    \/ \E plugin_id \in {"com.example.plugin1", "com.example.plugin2", "com.example.unknown"},
          undefined \in {"fault", "unequal"},
          failing \in {AllocOK, {"data"}, {"plugin"}} :
            FirstInstance /\ clapgo_factory_create_plugin(plugin_id, undefined, failing)

SpecEntry == InitRegistry /\ [][NextEntry]_vars

\* C28: in the entry layer of plugin.c no block is freed twice and no
\* pointer that the layer did not allocate is freed; a string field, a
\* feature array or a feature string is freed only if the tracking record
\* of its descriptor says it was allocated; and after clapgo_deinit every
\* descriptor copy, every copied string, every feature string, every
\* feature array and both arrays made by clapgo_init are freed, the two
\* array pointers are NULL and the plugin count is 0.
C28_InitDeinitFreesOnce ==
    LET e == entry_layer
        BlocksOf(c) == {c.alloc, c.features} \cup {c.str[f] : f \in StringFields}
                     \cup {c.tags[i].alloc : i \in DOMAIN c.tags}
        All == UNION {BlocksOf(e.copies[i]) : i \in DOMAIN e.copies}
               \cup {e.descriptor_array, e.allocation_array}
    IN /\ All \cap {"double", "wild", "borrowed"} = {}
       /\ \A i \in DOMAIN e.copies :
            /\ \A f \in StringFields : e.copies[i].str[f] = "freed" => e.tracking[i][f]
            /\ e.copies[i].features = "freed" => e.tracking[i].features_array
            /\ \A k \in DOMAIN e.copies[i].tags :
                    e.copies[i].tags[k].alloc = "freed" => e.tracking[i].features_strings
       /\ last.op = "clapgo_entry_deinit" =>
            /\ "live" \notin All
            /\ e.plugin_descriptors = "null" /\ e.descriptor_allocations = "null"
            /\ e.plugin_count = 0

\* clapgo_deinit has run after a clapgo_init that copied two descriptors,
\* the first with every string and two feature strings: all of it is freed.
C28_Witness ==
    /\ last.op = "clapgo_entry_deinit"
    /\ Len(entry_layer.copies) = 2
    /\ entry_layer.descriptor_array = "freed" /\ entry_layer.allocation_array = "freed"
    /\ entry_layer.copies[2].alloc = "freed"
    /\ LET c == entry_layer.copies[1]
       IN /\ c.alloc = "freed" /\ c.features = "freed"
          /\ \A f \in StringFields : c.str[f] = "freed"
          /\ Len(c.tags) = 2 /\ \A k \in 1..2 : c.tags[k].alloc = "freed"

(***************************************************************************)
(* The preset-discovery factory and provider (preset_discovery.c).         *)
(***************************************************************************)
MAX_PRESET_PROVIDERS == 32

\* preset_discovery.c:89-110: $HOME/.clap/<last component of the id>/presets
\* is a directory.  HOME is /home/user.
plugin_has_presets(plugin_id) ==
    /\ plugin_id # NULL /\ plugin_id # ""
    /\ LET dots == {i \in 1..Len(plugin_id) : SubSeq(plugin_id, i, i) = "."}
           simple_name ==
               IF dots = {} THEN plugin_id
               ELSE SubSeq(plugin_id, (CHOOSE i \in dots : \A j \in dots : j <= i) + 1,
                           Len(plugin_id))
           path == "/home/user/.clap/" \o simple_name \o "/presets"
       IN (IF Len(path) < 512 THEN path ELSE SubSeq(path, 1, 511)) \in presets.directories

\* preset_discovery.c:362-389: once, the id of each registry plugin that has
\* a preset directory is formatted into the 256 bytes of provider_ids[k].
initialize_descriptors ==
    IF presets.descriptors_initialized THEN presets
    ELSE LET with == {i \in 0..(manifest_plugin_count - 1) :
                        plugin_has_presets(manifest_plugins[i].manifest.id)}
             nth(k) == CHOOSE i \in with : Cardinality({j \in with : j < i}) = k - 1
             n == IF Cardinality(with) < MAX_PRESET_PROVIDERS THEN Cardinality(with)
                  ELSE MAX_PRESET_PROVIDERS
             text(k) == manifest_plugins[nth(k)].manifest.id \o ".presets"
         IN [presets EXCEPT
                !.descriptors_initialized = TRUE,
                !.provider_ids = [k \in 1..n |->
                                    IF Len(text(k)) < 256 THEN text(k)
                                    ELSE SubSeq(text(k), 1, 255)]]

\* preset_discovery.c:392-413
factory_count ==
    /\ ~crashed
    /\ presets' = initialize_descriptors
    /\ LET with == {i \in 0..(manifest_plugin_count - 1) :
                        plugin_has_presets(manifest_plugins[i].manifest.id)}
       IN last' = Call("factory_count", 0, "", "",
                       IF Cardinality(with) < MAX_PRESET_PROVIDERS THEN Cardinality(with)
                       ELSE MAX_PRESET_PROVIDERS, <<>>)
    /\ UNCHANGED <<exports, audio_thread, entry_layer, converters, crashed>>
    /\ UNCHANGED Registry
    /\ UNCHANGED Instances

\* preset_discovery.c:415-441.  A descriptor that initialize_descriptors did
\* not fill is zero: its id is NULL.
factory_get_descriptor(index) ==
    /\ ~crashed
    /\ presets' = initialize_descriptors
    /\ LET with == {i \in 0..(manifest_plugin_count - 1) :
                        plugin_has_presets(manifest_plugins[i].manifest.id)}
           ids == initialize_descriptors.provider_ids
       IN last' =
            IF index < MAX_PRESET_PROVIDERS /\ index < Cardinality(with)
            THEN Call("factory_get_descriptor", 0, "", "provider_descriptor", index, <<>>)
                    @@ [id |-> IF index < Len(ids) THEN ids[index + 1] ELSE NULL]
            ELSE Call("factory_get_descriptor", 0, "", NULL, index, <<>>) @@ [id |-> NULL]
    /\ UNCHANGED <<exports, audio_thread, entry_layer, converters, crashed>>
    /\ UNCHANGED Registry
    /\ UNCHANGED Instances

\* preset_discovery.c:443-520.  indexer is the host's indexer (NULL, or which
\* of its two callbacks are set), provider_id the id asked for or NULL.
factory_create(indexer, provider_id, failing) ==
    /\ ~crashed
    /\ LET op == "factory_create"
           with == {i \in 0..(manifest_plugin_count - 1) :
                        plugin_has_presets(manifest_plugins[i].manifest.id)}
           match == {i \in with : manifest_plugins[i].manifest.id \o ".presets" = provider_id}
           first == CHOOSE i \in match : \A j \in match : i <= j
           provider_index == Cardinality({j \in with : j < first})
           ids == initialize_descriptors.provider_ids
       IN IF provider_id = NULL \/ indexer.null
          THEN /\ last' = Call(op, 0, provider_id, NULL, 0, <<>>)
                            @@ [indexer |-> indexer, id |-> NULL, failing |-> failing]
               /\ UNCHANGED presets
          ELSE IF match = {} \/ failing # AllocOK
          THEN /\ last' = Call(op, 0, provider_id, NULL, 0, <<>>)
                            @@ [indexer |-> indexer, id |-> NULL, failing |-> failing]
               /\ presets' = initialize_descriptors
          ELSE /\ last' = Call(op, 0, provider_id, "provider", provider_index, <<>>)
                            @@ [indexer |-> indexer, failing |-> failing,
                                id |-> IF provider_index < Len(ids)
                                       THEN ids[provider_index + 1] ELSE NULL]
               /\ presets' =
                    [initialize_descriptors EXCEPT
                        !.provider = [null |-> FALSE, provider_data |-> TRUE,
                                      desc |-> provider_index,
                                      plugin_id |-> manifest_plugins[first].manifest.id,
                                      indexer |-> indexer]]
    /\ UNCHANGED <<exports, audio_thread, entry_layer, converters, crashed>>
    /\ UNCHANGED Registry
    /\ UNCHANGED Instances

\* provider_init without the stat of preset_discovery.c:176-181.
provider_init_without_stat(provider, declared, located) ==
    /\ ~crashed
    /\ LET usable == /\ ~provider.null /\ provider.provider_data
                     /\ ~provider.indexer.null
                     /\ provider.indexer.declare_filetype
                     /\ provider.indexer.declare_location
           r == IF ~usable THEN [ret |-> FALSE, calls |-> <<>>]
                ELSE IF ~declared THEN [ret |-> FALSE, calls |-> <<"declare_filetype">>]
                ELSE [ret |-> located, calls |-> <<"declare_filetype", "declare_location">>]
       IN last' = Call("provider_init", 0, provider.plugin_id, B2S(r.ret), 0, r.calls)
                    @@ [provider |-> provider, declared |-> declared, located |-> located]
    /\ UNCHANGED <<exports, audio_thread, entry_layer, presets, converters, crashed>>
    /\ UNCHANGED Registry
    /\ UNCHANGED Instances

\* preset_discovery.c:113-200.  declared and located are what the indexer's
\* declare_filetype and declare_location return when called.  The directory
\* tested at 161-181 is the one plugin_has_presets tests.
provider_init(provider, declared, located) ==
    /\ ~crashed
    /\ LET r == IF provider.null \/ ~provider.provider_data
                THEN [ret |-> FALSE, calls |-> <<>>]
                ELSE IF provider.indexer.null
                THEN [ret |-> FALSE, calls |-> <<>>]
                ELSE IF ~provider.indexer.declare_filetype
                        \/ ~provider.indexer.declare_location
                THEN [ret |-> FALSE, calls |-> <<>>]
                ELSE IF ~declared
                THEN [ret |-> FALSE, calls |-> <<"declare_filetype">>]
                ELSE IF ~plugin_has_presets(provider.plugin_id)
                THEN [ret |-> FALSE, calls |-> <<"declare_filetype">>]
                ELSE [ret |-> located, calls |-> <<"declare_filetype", "declare_location">>]
       IN last' = Call("provider_init", 0, provider.plugin_id, B2S(r.ret), 0, r.calls)
                    @@ [provider |-> provider, declared |-> declared, located |-> located]
    /\ UNCHANGED <<exports, audio_thread, entry_layer, presets, converters, crashed>>
    /\ UNCHANGED Registry
    /\ UNCHANGED Instances

(***************************************************************************)
(* SpecPresets: the host initialises and deinitialises the bridge with a   *)
(* manifest whose id is short or 248 characters long, preset directories   *)
(* appear and disappear, and the host calls the preset-discovery factory   *)
(* and the init of the provider it got or of one it filled in itself.      *)
(***************************************************************************)
NextPresets ==
    LET s64 == "0123456789abcdef0123456789abcdef0123456789abcdef0123456789abcdef"
        name == s64 \o s64 \o s64 \o SubSeq(s64, 1, 44)
        indexers == {[null |-> TRUE, declare_filetype |-> FALSE, declare_location |-> FALSE],
                     [null |-> FALSE, declare_filetype |-> TRUE, declare_location |-> TRUE],
                     [null |-> FALSE, declare_filetype |-> TRUE, declare_location |-> FALSE],
                     [null |-> FALSE, declare_filetype |-> FALSE, declare_location |-> TRUE]}
    IN
    \/ \E doc \in {TheDoc, GoodDoc("com.example." \o name), NoFile} :
            FirstInit /\ ClapgoInit(doc, NoFile, TRUE)
    \/ ClapgoDeinit
    \/ \E dir \in {"/home/user/.clap/gain/presets",
                   "/home/user/.clap/" \o name \o "/presets"} :
            /\ ~crashed
            /\ presets' = [presets EXCEPT
                            !.directories = IF dir \in @ THEN @ \ {dir} ELSE @ \cup {dir}]
            /\ last' = Call("environment", 0, dir, "", 0, <<>>)
            /\ UNCHANGED <<exports, audio_thread, entry_layer, converters, crashed>>
            /\ UNCHANGED Registry
            /\ UNCHANGED Instances
    \/ factory_count
    \/ \E index \in {0, 1, MAX_PRESET_PROVIDERS} : factory_get_descriptor(index)
    \/ \E indexer \in indexers,
          provider_id \in {NULL, "com.example.gain.presets", "com.example.unknown.presets"}
                          \cup {presets.provider_ids[k] : k \in DOMAIN presets.provider_ids},
          failing \in {AllocOK, {"provider"}, {"provider_data"}} :
            factory_create(indexer, provider_id, failing)
    \/ \E provider \in {presets.provider,
                        [presets.provider EXCEPT !.indexer.null = TRUE],
                        [presets.provider EXCEPT !.provider_data = FALSE]},
          declared \in BOOLEAN, located \in BOOLEAN :
            provider_init(provider, declared, located)

SpecPresets == InitRegistry /\ [][NextPresets]_vars

\* C29: after any sequence of calls, factory_count returns the number of
\* registry plugins that have a preset directory; factory_get_descriptor
\* returns for an index below that number a descriptor whose id is the id
\* of the index-th such plugin followed by ".presets", and NULL for any
\* other index; and factory_create, given a non-NULL indexer and the id
\* that the descriptor of such an index holds, returns (when its two
\* allocations succeed) a provider whose desc is that descriptor.
C29_PresetFactoryConsistent ==
    LET with == {i \in 0..(manifest_plugin_count - 1) :
                    plugin_has_presets(manifest_plugins[i].manifest.id)}
        n == Cardinality(with)
        nth(k) == CHOOSE i \in with : Cardinality({j \in with : j < i}) = k
        held(k) == IF k < Len(presets.provider_ids) THEN presets.provider_ids[k + 1] ELSE NULL
    IN /\ last.op = "factory_count" => last.ptr = n
       /\ last.op = "factory_get_descriptor" =>
            IF last.ptr < n
            THEN /\ last.result = "provider_descriptor"
                 /\ last.id = manifest_plugins[nth(last.ptr)].manifest.id \o ".presets"
            ELSE last.result = NULL
       /\ (last.op = "factory_create" /\ ~last.indexer.null /\ last.failing = AllocOK) =>
            \A k \in 0..(n - 1) :
                (last.arg # NULL /\ last.arg = held(k)) =>
                    (last.result = "provider" /\ last.ptr = k /\ last.id = last.arg)

\* C30: provider_init calls declare_filetype before declare_location and
\* nothing else of the indexer; it calls declare_location only if
\* declare_filetype returned true and the plugin's preset directory exists;
\* it calls nothing when the provider, its data, the indexer or one of the
\* two callbacks is NULL; and it returns true exactly when declare_location
\* was called and returned true.
C30_ProviderInitOrder ==
    last.op = "provider_init" =>
        LET p == last.provider
            path == "/home/user/.clap/"
                    \o (IF p.plugin_id = "com.example.gain" THEN "gain"
                        ELSE SubSeq(p.plugin_id, 13, Len(p.plugin_id)))
                    \o "/presets"
        IN /\ last.calls \in {<<>>, <<"declare_filetype">>,
                              <<"declare_filetype", "declare_location">>}
           /\ Len(last.calls) = 2 => (last.declared /\ path \in presets.directories)
           /\ (\/ p.null \/ ~p.provider_data \/ p.indexer.null
               \/ ~p.indexer.declare_filetype \/ ~p.indexer.declare_location)
              => last.calls = <<>>
           /\ (last.result = "true") <=> (Len(last.calls) = 2 /\ last.located)

\* The init of a provider that factory_create made for the gain plugin has
\* declared the filetype and then the location, and returned true.
C30_Witness ==
    /\ last.op = "provider_init"
    /\ last.provider = presets.provider
    /\ last.provider.plugin_id = "com.example.gain"
    /\ last.calls = <<"declare_filetype", "declare_location">>
    /\ last.result = "true"

(***************************************************************************)
(* provider_get_metadata (preset_discovery.c:214-345).  file is what the   *)
(* location holds: whether fopen succeeds, whether json_object_from_file   *)
(* parses it, and the fields of the parsed object.  An array field is      *)
(* [present, array, elems]; a JSON null element is "null", for which       *)
(* json_object_array_get_idx returns NULL.  receiver is the host's         *)
(* receiver: whether the pointer is NULL and whether its optional          *)
(* set_soundpack_id callback is set; begin_ok is what begin_preset         *)
(* returns.  The callbacks invoked are recorded in order in calls, with    *)
(* the ids handed to add_plugin_id in ids and the word handed to set_flags *)
(* in flags (IS_USER_CONTENT is 1 << 2, IS_FAVORITE is 1 << 3).            *)
(***************************************************************************)
provider_get_metadata(provider, location, file, receiver, begin_ok) ==
    /\ ~crashed
    /\ LET none == [ret |-> FALSE, calls |-> <<>>, ids |-> <<>>, flags |-> 0]
           Each(f, cb) == IF f.present /\ f.array
                          THEN [k \in 1..Cardinality({j \in DOMAIN f.elems : f.elems[j] # "null"})
                                    |-> cb]
                          ELSE <<>>
           given == SelectSeq(file.plugin_ids.elems, LAMBDA e : e # "null")
           ids == IF file.plugin_ids.present /\ file.plugin_ids.array
                  THEN given
                  ELSE <<provider.plugin_id>>
           flags == 4 + (IF file.is_favorite = "true" THEN 8 ELSE 0)
           r == IF provider.null \/ ~provider.provider_data \/ location = NULL
                   \/ receiver.null
                THEN none
                ELSE IF ~file.opens THEN none
                ELSE IF ~file.parses THEN none
                ELSE IF ~file.name THEN none
                ELSE IF ~begin_ok
                THEN [none EXCEPT !.calls = <<"begin_preset">>]
                ELSE [ret |-> TRUE,
                      calls |-> <<"begin_preset">>
                                \o [k \in 1..Len(ids) |-> "add_plugin_id"]
                                \o (IF file.description THEN <<"set_description">> ELSE <<>>)
                                \o Each(file.creators, "add_creator")
                                \o Each(file.features, "add_feature")
                                \o <<"set_flags">>
                                \o (IF file.soundpack_id = "pack" /\ receiver.set_soundpack_id
                                    THEN <<"set_soundpack_id">> ELSE <<>>),
                      ids |-> ids, flags |-> flags]
       IN last' = Call("provider_get_metadata", 0, location, B2S(r.ret), r.flags, r.calls)
                    @@ [provider |-> provider, file |-> file, receiver |-> receiver,
                        begin_ok |-> begin_ok, ids |-> r.ids]
    /\ UNCHANGED <<exports, audio_thread, entry_layer, presets, converters, crashed>>
    /\ UNCHANGED Registry
    /\ UNCHANGED Instances

(***************************************************************************)
(* SpecMetadata: the host initialises the bridge with the gain manifest,   *)
(* the gain preset directory appears or disappears, the host creates the   *)
(* provider and asks it (or a copy without data) for the metadata of       *)
(* preset files of every shape.                                            *)
(***************************************************************************)
NextMetadata ==
    LET absent == [present |-> FALSE, array |-> FALSE, elems |-> <<>>]
        list(e) == [present |-> TRUE, array |-> TRUE, elems |-> e]
        plain == [opens |-> TRUE, parses |-> TRUE, name |-> TRUE, plugin_ids |-> absent,
                  description |-> FALSE, creators |-> absent, features |-> absent,
                  is_favorite |-> "absent", soundpack_id |-> "absent"]
        files == {[plain EXCEPT !.name = n, !.plugin_ids = p, !.soundpack_id = sp] :
                    n \in BOOLEAN,
                    p \in {absent, [absent EXCEPT !.present = TRUE], list(<<>>),
                           list(<<"null">>), list(<<"com.example.other">>),
                           list(<<"null", "com.example.other", "com.example.gain">>)},
                    sp \in {"absent", "", "pack"}}
                 \cup {[plain EXCEPT !.description = x,
                                     !.creators = IF x THEN list(<<"someone", "null">>)
                                                  ELSE absent,
                                     !.features = f, !.is_favorite = v] :
                    x \in BOOLEAN,
                    f \in {absent, [absent EXCEPT !.present = TRUE], list(<<"warm">>)},
                    v \in {"absent", "true", "false"}}
                 \cup {[plain EXCEPT !.opens = FALSE, !.parses = FALSE],
                       [plain EXCEPT !.parses = FALSE]}
        path == "/home/user/.clap/gain/presets/warm.json"
        with == [null |-> FALSE, set_soundpack_id |-> TRUE]
        calls == {<<presets.provider, path, file, [with EXCEPT !.set_soundpack_id = sp], ok>> :
                    file \in files, sp \in BOOLEAN, ok \in BOOLEAN}
                 \cup {<<[presets.provider EXCEPT !.provider_data = FALSE], path, plain, with, TRUE>>,
                       <<presets.provider, NULL, plain, with, TRUE>>,
                       <<presets.provider, path, plain, [with EXCEPT !.null = TRUE], TRUE>>}
    IN
    \/ FirstInit /\ ClapgoInit(TheDoc, NoFile, TRUE)
    \/ ClapgoDeinit
    \/ /\ ~crashed
       /\ presets' = [presets EXCEPT
                        !.directories = IF "/home/user/.clap/gain/presets" \in @
                                        THEN {} ELSE {"/home/user/.clap/gain/presets"}]
       /\ last' = Call("environment", 0, "/home/user/.clap/gain/presets", "", 0, <<>>)
       /\ UNCHANGED <<exports, audio_thread, entry_layer, converters, crashed>>
       /\ UNCHANGED Registry
       /\ UNCHANGED Instances
    \/ factory_create([null |-> FALSE, declare_filetype |-> TRUE, declare_location |-> TRUE],
                      "com.example.gain.presets", AllocOK)
    \/ \E c \in calls : provider_get_metadata(c[1], c[2], c[3], c[4], c[5])

SpecMetadata == InitRegistry /\ [][NextMetadata]_vars

\* C31: in provider_get_metadata, begin_preset is the first receiver
\* callback invoked and is invoked at most once; if the file cannot be
\* parsed or has no name field no callback is invoked and the result is
\* false; if begin_preset returns false no further callback is invoked and
\* the result is false; otherwise set_flags is invoked exactly once and at
\* least one add_plugin_id is invoked before the call returns true.
C31_MetadataCallbackOrder ==
    last.op = "provider_get_metadata" =>
        LET n(cb) == Cardinality({k \in DOMAIN last.calls : last.calls[k] = cb})
        IN /\ last.calls # <<>> => last.calls[1] = "begin_preset"
           /\ n("begin_preset") <= 1
           /\ (~last.file.opens \/ ~last.file.parses \/ ~last.file.name)
                => (last.calls = <<>> /\ last.result = "false")
           /\ (last.calls # <<>> /\ ~last.begin_ok)
                => (last.calls = <<"begin_preset">> /\ last.result = "false")
           /\ (last.calls # <<>> /\ last.begin_ok)
                => /\ n("set_flags") = 1
                   /\ n("add_plugin_id") >= 1
                   /\ last.result = "true"
           /\ last.result = "true" => (last.calls # <<>> /\ last.begin_ok)

\* C32: every module-side instance the module's constructor returned during
\* create is, when create returns, either owned by the instance handle
\* returned to the host or has been passed to the module's destructor; no
\* failure branch after the constructor succeeded leaves a module-side
\* instance that can never be destroyed.
C32_CreateOwnsOrDestroys ==
    [][last'.op = "clapgo_create_plugin" =>
        \A g \in Slots :
            (go_instances[g] = "None" /\ go_instances'[g] \in LiveStates) =>
                /\ last'.result = "plugin"
                /\ plugins'[last'.ptr].alloc = "live"
                /\ plugin_data'[plugins'[last'.ptr].plugin_data].alloc = "live"
                /\ plugin_data'[plugins'[last'.ptr].plugin_data].go_instance = g]_vars

\* C33: a manifest load that fails validation leaves nothing owned by the
\* registry: the feature strings manifest_load_from_file copied while
\* parsing a rejected manifest have been released when the load returns or
\* are released by the next clapgo_deinit, so that after a clapgo_deinit
\* that found the registry empty no entry holds a feature string.
C33_RejectedManifestOwnsNothing ==
    [][(last'.op = "clapgo_deinit" /\ manifest_plugin_count = 0) =>
        \A i \in DOMAIN manifest_plugins' :
            manifest_plugins'[i].manifest.features = <<>>]_vars

(***************************************************************************)
(* SpecFeatures: valid manifests whose features array holds up to          *)
(* MaxFeatures elements, each a string or not a string; the descriptor is  *)
(* synthesized through each of the three callers and torn down.  No        *)
(* allocation fails.  The bridge is initialised only before any descriptor *)
(* was synthesized.                                                        *)
(***************************************************************************)
NextFeatures ==
    LET arrays == UNION {[1..n -> {"stereo", "<number>"}] : n \in 0..MaxFeatures}
        outcomes == {AllocOK, {"strdup(NULL) returns NULL"}}
    IN
    \/ \E features \in arrays :
            (\A d \in DescSlots : descriptors[d].alloc = "none")
            /\ ClapgoInit([TheDoc EXCEPT !.features = features], NoFile, TRUE)
    \/ \E failing \in outcomes : ClapgoLoadManifestPlugin(0, failing)
    \/ \E index \in 0..1, failing \in outcomes : ClapgoGetPluginDescriptor(index, failing)
    \/ \E failing \in outcomes :
            FirstInstance /\ ClapgoCreatePlugin("com.example.gain", failing, TRUE, TRUE, TRUE)
    \/ \E p \in Slots : PluginDestroy(p)
    \/ ClapgoDeinit

SpecFeatures == InitRegistry /\ [][NextFeatures]_vars

\* C34: after a successful manifest load every features[i] with i below
\* feature_count is a non-null string, whatever the elements of the features
\* array are; the synthesized descriptor's feature list then has exactly
\* feature_count non-null entries before the NULL terminator; and teardown,
\* which walks the list to the first NULL, leaves no feature string of the
\* descriptor allocated.
C34_FeaturesNonNull ==
    /\ \A i \in 0..(manifest_plugin_count - 1) :
        LET features == manifest_plugins[i].manifest.features
            d == manifest_plugins[i].descriptor
        IN /\ \A k \in 1..Len(features) : features[k] # NULL
           /\ (d # 0 /\ Len(features) > 0) =>
                /\ Len(descriptors[d].tags) = Len(features)
                /\ \A k \in 1..Len(features) : descriptors[d].tags[k].alloc = "live"
    /\ last.op = "clapgo_deinit" =>
        \A d \in DescSlots :
            \A k \in 1..Len(descriptors[d].tags) : descriptors[d].tags[k].alloc # "live"

\* C35: in every reachable state of the registry, for every entry with index
\* below the plugin count, loaded is true if and only if descriptor is
\* non-null; this holds after any sequence of clapgo_init,
\* clapgo_load_manifest_plugin, clapgo_get_plugin_descriptor,
\* clapgo_create_plugin and clapgo_deinit, also when descriptor synthesis
\* fails.
C35_LoadedIffDescriptor ==
    \A i \in 0..(manifest_plugin_count - 1) :
        manifest_plugins[i].loaded <=> manifest_plugins[i].descriptor # 0

\* A load whose descriptor allocation failed has returned false and left the
\* entry below the count neither loaded nor with a descriptor.
C35_Witness ==
    /\ last.op = "clapgo_load_manifest_plugin"
    /\ last.result = "false"
    /\ manifest_plugin_count = 1
    /\ ~manifest_plugins[0].loaded
    /\ manifest_plugins[0].descriptor = 0

\* C36: re-initialization does not lose resources: when clapgo_init or
\* clapgo_find_manifests is called again without an intervening
\* clapgo_deinit, every descriptor and every manifest feature string the
\* registry held has been released before the registry is cleared, and no
\* descriptor a live instance holds refers to released memory.
C36_ReinitReleases ==
    [][last'.op \in {"clapgo_init", "clapgo_find_manifests"} =>
        /\ \A i \in 0..(manifest_plugin_count - 1) :
            LET d == manifest_plugins[i].descriptor
            IN d # 0 =>
                /\ descriptors'[d].alloc = "freed"
                /\ \A f \in StringFields : descriptors'[d].str[f] \in {"null", "freed"}
                /\ descriptors'[d].features \in {"null", "freed"}
                /\ \A k \in 1..Len(descriptors'[d].tags) :
                        descriptors'[d].tags[k].alloc \in {"null", "freed"}
        /\ \A k \in Slots :
            (plugins'[k].alloc = "live" /\ plugins'[k].desc # 0) =>
                descriptors'[plugins'[k].desc].alloc = "live"]_vars

\* C37: for every extension id that is not one of the fixed ids the bridge
\* handles, get_extension on a live instance returns exactly what the
\* module's own get-extension entry point returns for that id; for every
\* fixed id the module's entry point is not called.
C37_OtherIdsGoToModule ==
    (GetExtensionCall /\ last.plugin \in LivePlugins /\ Forwards(last.plugin)) =>
        IF last.arg \in DOMAIN GatedExtensions \cup {"CLAP_EXT_AUDIO_PORTS"}
        THEN last.calls = <<>>
        ELSE /\ last.calls = <<"ClapGo_PluginGetExtension">>
             /\ last.result = last.modret

\* The module's table for an id the bridge does not know came back from
\* get_extension on a live instance.
C37_Witness ==
    /\ GetExtensionCall
    /\ last.plugin \in LivePlugins
    /\ last.arg = "com.example.custom"
    /\ last.modret = "go_extension"
    /\ last.result = "go_extension"
    /\ last.calls = <<"ClapGo_PluginGetExtension">>

\* C38: in the entry layer of plugin.c, after clapgo_init returned true
\* every descriptor slot with index below the plugin count is non-null, so
\* the factory's get_plugin_descriptor returns non-null for every index below
\* the count and clapgo_create_plugin never reads the id of a NULL slot,
\* also when a source descriptor is missing or a deep copy fails.
C38_SlotsNonNull ==
    entry_layer.plugin_descriptors = "array" =>
        /\ \A i \in 1..entry_layer.plugin_count : entry_layer.slots[i] # "null"
        /\ (last.op = "clapgo_factory_get_plugin_descriptor"
            /\ last.ptr < entry_layer.plugin_count) => last.result = "descriptor"
        /\ last.op = "clapgo_factory_create_plugin" =>
                \A k \in DOMAIN last.calls : last.calls[k] # "id of NULL slot"

(***************************************************************************)
(* The state-converter factory (state_converter.c:54-214).                 *)
(***************************************************************************)
MAX_STATE_CONVERTERS == 16

MaxFiles == 2     \* configuration files in the converters directory

\* state_converter.c:55-151: runs once.  Each field is copied with strncpy
\* into a zeroed buffer of 256 bytes, so at most 255 characters are kept.
\* "id" goes to converter_ids[k] and "name" to converter_names[k]; then
\* "src_plugin_id" is copied into converter_ids[k] again, which
\* src_plugin_ids[k].id is set to point to (119-124), and "dst_plugin_id"
\* into converter_names[k], which dst_plugin_ids[k].id points to (126-131).
\* The descriptor's id and name point to the same two buffers (137-138).
\* The vendor, version and description buffers are not modelled.
initialize_converters ==
    LET c == converters
        cut(t) == IF Len(t) > 255 THEN SubSeq(t, 1, 255) ELSE t
        usable == SelectSeq(c.directory.files, LAMBDA f : f.json /\ f.parses)
        n == IF Len(usable) > MAX_STATE_CONVERTERS THEN MAX_STATE_CONVERTERS
             ELSE Len(usable)
        build(f) ==
            LET ids0 == IF f.id = MISSING THEN "" ELSE cut(f.id)
                names0 == IF f.name = MISSING THEN "" ELSE cut(f.name)
                converter_ids == IF f.src_plugin_id = MISSING THEN ids0
                                 ELSE cut(f.src_plugin_id)
                converter_names == IF f.dst_plugin_id = MISSING THEN names0
                                   ELSE cut(f.dst_plugin_id)
            IN [id |-> converter_ids, name |-> converter_names,
                src_plugin_id |-> IF f.src_plugin_id = MISSING THEN NULL
                                  ELSE converter_ids,
                dst_plugin_id |-> IF f.dst_plugin_id = MISSING THEN NULL
                                  ELSE converter_names]
    IN IF c.converters_initialized THEN c
       ELSE IF ~c.home \/ ~c.directory.exists
       THEN [c EXCEPT !.converters_initialized = TRUE, !.converter_count = 0]
       ELSE [c EXCEPT !.converters_initialized = TRUE, !.converter_count = n,
                      !.descriptors = [k \in 1..n |-> build(usable[k])],
                      !.loaded = SubSeq(usable, 1, n)]

\* state_converter.c:159-169
converter_factory_get_descriptor(index) ==
    /\ ~crashed
    /\ converters' = initialize_converters
    /\ LET c == initialize_converters
       IN last' =
            IF index >= c.converter_count
            THEN Call("converter_factory_get_descriptor", 0, "", NULL, index, <<>>)
                    @@ [desc |-> [id |-> NULL, name |-> NULL, src_plugin_id |-> NULL,
                                  dst_plugin_id |-> NULL]]
            ELSE Call("converter_factory_get_descriptor", 0, "", "descriptor", index, <<>>)
                    @@ [desc |-> c.descriptors[index + 1]]
    /\ UNCHANGED <<exports, audio_thread, entry_layer, presets, crashed>>
    /\ UNCHANGED Registry
    /\ UNCHANGED Instances

\* state_converter.c:171-214.  The first descriptor whose id equals
\* converter_id is used; the converter's data gets the two plugin ids, cut
\* to 255 characters.  strncpy from a src_plugin_id.id or dst_plugin_id.id
\* that is NULL is undefined: it faults, or copies nothing when `undefined`
\* says so.  failing: which of the two callocs fail.
converter_factory_create(converter_id, undefined, failing) ==
    /\ LET c == IF converter_id = NULL THEN converters ELSE initialize_converters
           op == "converter_factory_create"
           cut(t) == IF Len(t) > 255 THEN SubSeq(t, 1, 255) ELSE t
           match == {k \in 1..c.converter_count : c.descriptors[k].id = converter_id}
           i == CHOOSE k \in match : \A j \in match : k <= j
           d == c.descriptors[i]
           none == [data |-> [src_plugin_id |-> "", dst_plugin_id |-> ""],
                    failing |-> failing]
       IN /\ ~crashed
          /\ converters' = c
          /\ IF converter_id = NULL \/ match = {}
             THEN last' = Call(op, 0, converter_id, NULL, 0, <<>>) @@ none
                  /\ UNCHANGED crashed
             ELSE IF calloc("converter", failing) = "null" \/ calloc("data", failing) = "null"
             THEN last' = Call(op, 0, converter_id, NULL, i - 1, <<>>) @@ none
                  /\ UNCHANGED crashed
             ELSE IF NULL \in {d.src_plugin_id, d.dst_plugin_id} /\ undefined = "fault"
             THEN last' = Call(op, 0, converter_id, "CRASH", i - 1, <<"strncpy(NULL)">>) @@ none
                  /\ crashed' = TRUE
             ELSE last' = Call(op, 0, converter_id, "converter", i - 1,
                               IF NULL \in {d.src_plugin_id, d.dst_plugin_id}
                               THEN <<"strncpy(NULL)">> ELSE <<>>)
                          @@ [data |-> [src_plugin_id |-> IF d.src_plugin_id = NULL THEN ""
                                                         ELSE cut(d.src_plugin_id),
                                        dst_plugin_id |-> IF d.dst_plugin_id = NULL THEN ""
                                                         ELSE cut(d.dst_plugin_id)],
                              failing |-> failing]
                  /\ UNCHANGED crashed
    /\ UNCHANGED <<exports, audio_thread, entry_layer, presets>>
    /\ UNCHANGED Registry
    /\ UNCHANGED Instances

(***************************************************************************)
(* SpecConverters: up to MaxFiles configuration files appear in the        *)
(* converters directory (or the directory is missing, or HOME is unset)    *)
(* before the host's first call; the host asks the factory for descriptors *)
(* and creates converters by id.                                           *)
(***************************************************************************)
NextConverters ==
    LET full == [json |-> TRUE, parses |-> TRUE, id |-> "com.example.gain-v1-to-v2",
                 name |-> "Gain v1 to v2", src_plugin_id |-> "com.example.gain-v1",
                 dst_plugin_id |-> "com.example.gain"]
        configs == {full,
                    [full EXCEPT !.id = "com.example.synth-import", !.name = "Synth import",
                                 !.src_plugin_id = "com.example.synth",
                                 !.dst_plugin_id = "com.example.gain"],
                    [full EXCEPT !.src_plugin_id = "com.example.gain-v1-to-v2"],
                    [full EXCEPT !.src_plugin_id = MISSING],
                    [full EXCEPT !.dst_plugin_id = MISSING],
                    [full EXCEPT !.id = MISSING, !.name = MISSING],
                    [full EXCEPT !.parses = FALSE],
                    [full EXCEPT !.json = FALSE]}
        ids == {NULL, "com.example.gain-v1-to-v2", "com.example.synth-import",
                "com.example.gain-v1", "com.example.synth", ""}
    IN
    \/ \E n \in 0..MaxFiles : \E files \in [1..n -> configs], home, exists \in BOOLEAN :
            /\ ~crashed
            /\ ~converters.converters_initialized
            /\ converters.directory.files = <<>>
            /\ converters' = [converters EXCEPT !.home = home,
                                !.directory = [exists |-> exists,
                                               files |-> IF exists THEN files ELSE <<>>]]
            /\ last' = Call("environment", 0, "/home/user/.clap/converters", "", n, <<>>)
            /\ UNCHANGED <<exports, audio_thread, entry_layer, presets, crashed>>
            /\ UNCHANGED Registry
            /\ UNCHANGED Instances
    \/ \E index \in 0..MaxFiles : converter_factory_get_descriptor(index)
    \/ \E converter_id \in ids, undefined \in {"fault", "nothing"},
          failing \in {AllocOK, {"converter"}, {"data"}} :
            converter_factory_create(converter_id, undefined, failing)

SpecConverters == InitRegistry /\ [][NextConverters]_vars

\* C39: for every state-converter configuration file loaded by
\* initialize_converters, the resulting descriptor's id, name,
\* src_plugin_id.id and dst_plugin_id.id equal the file's id, name,
\* src_plugin_id and dst_plugin_id values, so converter_factory_create called
\* with the configured id finds that converter.
C39_ConverterDescriptorMatchesFile ==
    LET c == converters
        configured(k) == \A f \in {"id", "name", "src_plugin_id", "dst_plugin_id"} :
                            c.loaded[k][f] # MISSING
    IN /\ \A k \in 1..c.converter_count :
            configured(k) =>
                \A f \in {"id", "name", "src_plugin_id", "dst_plugin_id"} :
                    c.descriptors[k][f] = c.loaded[k][f]
       /\ (last.op = "converter_factory_create" /\ last.failing = AllocOK) =>
            \A k \in 1..c.converter_count :
                (configured(k) /\ last.arg = c.loaded[k].id
                 /\ \A j \in 1..(k - 1) : c.loaded[j].id # c.loaded[k].id)
                    => (last.result = "converter" /\ last.ptr = k - 1)

====
